---------------------------- MODULE Spec2Model ----------------------------
(***************************************************************************)
(* A model of uihelper (src/uihelper/helpers/uihelper.py):                 *)
(*   - the attribute decorators and the widget factories they wrap,        *)
(*   - the layout composers VBox, HBox, Columns and Rows,                  *)
(*   - the logging bridge (LoggerContext), the Logger Table View           *)
(*     (LoggerWidget) and the ApplicationContext that owns one.            *)
(* Python values are records [t |-> type name, v |-> payload, e |->        *)
(* elements]; a toolkit object is the value whose t is its class and whose *)
(* v is its index in heap.  What a call does to its target is the sequence *)
(* of methods it invokes on it, in order.                                  *)
(***************************************************************************)
EXTENDS Integers, Sequences, FiniteSets, TLC

VARIABLES
    heap,       \* toolkit objects: heap[i] = [cls, log], log the invocations made on it
    call,       \* the last factory call: its inputs and its outcome
    ncalls,     \* factory calls made so far
    handlers,   \* the root logger's handlers, per context in registration order
    nctx,       \* LoggerContext objects constructed
    subs,       \* LoggerWidgets connected to message_logged: subs[i] = the context it listens to
    thr,        \* per thread: the log call it is executing, or idle
    issued,     \* log calls begun so far, in order of their ids
    serial,     \* ids in the order SignalHandler.emit emitted them
    queue,      \* the UI thread's event queue of queued signal deliveries
    rows,       \* per LoggerWidget: the table's rows, each with the thread that added it
    sinks,      \* lines written by the console and file handlers
    view,       \* per LoggerWidget: its auto_scroll flag and the row its table is scrolled to
    app,        \* the ApplicationContext: its _logger_widget (0 for None), the widget
                \* create_logger_widget returned last and those it constructed; the clipboard
    last_path,  \* per file dialog wrapper: its static field last_path
    dialogs     \* the dialog calls made so far, each with its inputs and its outcome

fvars == <<heap, call, ncalls>>
lvars == <<handlers, nctx, subs, thr, issued, serial, queue, rows, sinks, view, app>>
dvars == <<last_path, dialogs>>
vars == <<heap, call, ncalls, handlers, nctx, subs, thr, issued, serial, queue,
          rows, sinks, view, app, last_path, dialogs>>

-----------------------------------------------------------------------------
(* Bounds of the model *)

MaxKeys == 2        \* keyword options given in one factory call, besides the instance
MaxCalls == 2       \* calls made on one instance: the first and the reconfigurations
MaxArity == 2       \* length of the tuple of types a set_widget_attribute declares
MaxItems == 5       \* items given to Rows or Columns
MaxMixed == 2       \* items of any kind, valid or not, given to a composer
MaxCtx == 2         \* LoggerContexts constructed in one process
MaxSubs == 1        \* LoggerWidgets constructed
MaxLogCalls == 2    \* log calls made
MaxDialogs == 2     \* dialog calls made

-----------------------------------------------------------------------------
(* Python values *)

PyNone == [t |-> "NoneType", v |-> 0, e |-> <<>>]
PyInt(n) == [t |-> "int", v |-> n, e |-> <<>>]
PyFloat(n) == [t |-> "float", v |-> n, e |-> <<>>]     \* the float n.0
PyBool(b) == [t |-> "bool", v |-> IF b THEN 1 ELSE 0, e |-> <<>>]
\* PyStr(0) is the empty string, PyStr(n) a non-empty one
PyStr(n) == [t |-> "str", v |-> n, e |-> <<>>]
PyFn(n) == [t |-> "function", v |-> n, e |-> <<>>]
PyTuple(s) == [t |-> "tuple", v |-> 0, e |-> s]
PyList(s) == [t |-> "list", v |-> 0, e |-> s]
Obj(cls, i) == [t |-> cls, v |-> i, e |-> <<>>]

WidgetClasses ==
    {"QWidget", "QPushButton", "QLabel", "QSpinBox", "QSlider", "QCheckBox",
     "QRadioButton", "QComboBox", "QSplitter", "QScrollArea", "QStackedWidget",
     "QMainWindow", "QToolButton", "QDockWidget"}

LayoutClasses == {"QLayout", "QVBoxLayout", "QHBoxLayout"}

\* isinstance(val, ty): bool is a subclass of int, every widget class of QWidget
IsInstance(val, ty) ==
    CASE ty = "int" -> val.t \in {"int", "bool"}
      [] ty = "number" -> val.t \in {"int", "bool", "float"}
      [] ty = "QWidget" -> val.t \in WidgetClasses
      [] ty = "QLayout" -> val.t \in LayoutClasses
      [] OTHER -> val.t = ty

\* callable(val)
Callable(val) == val.t = "function"

\* bool(val), as `if val:` takes it
Truthy(val) ==
    CASE val.t = "NoneType" -> FALSE
      [] val.t \in {"str", "int", "bool"} -> val.v # 0
      [] val.t \in {"tuple", "list"} -> val.e # <<>>
      [] OTHER -> TRUE

\* kwargs.get(k) and kwargs.get(k, default)
Get(kw, k) == IF k \in DOMAIN kw THEN kw[k] ELSE PyNone

-----------------------------------------------------------------------------
(* The running state of one factory call: the target object, the          *)
(* invocations made on it so far, and the exception raised, if any.        *)

NoErr == [kind |-> "", p |-> ""]
Invocation(k, m, a) == [k |-> k, m |-> m, a |-> a]
Raise(st, kind, p) == [st EXCEPT !.err = [kind |-> kind, p |-> p]]
Raised(st) == st.err # NoErr

\* Names the decorators of SpinBox look up that are the toolkit's getters: called
\* with an argument they raise TypeError and set nothing.
ToolkitGetters == {"value", "singleStep"}

\* Methods a decorator of the factory looks up that the target's class does not have
ToolkitLacks(cls) == IF cls = "QComboBox" THEN {"setIcon", "setIconSize"} ELSE {}

\* Arguments the toolkit refuses with TypeError: setLayout is the one method the
\* code calls with a value it has not validated first (Widget's body)
ToolkitRejects(m, a) == m = "setLayout" /\ ~IsInstance(a[1], "QLayout")

\* getattr(widget, m)(*a)
Invoke(st, m, a) ==
    IF m \in ToolkitLacks(st.cls) THEN Raise(st, "AttributeError", m)
    ELSE LET done == [st EXCEPT !.log = Append(@, Invocation("call", m, a))]
         IN IF m \in ToolkitGetters \/ ToolkitRejects(m, a)
            THEN Raise(done, "TypeError", m) ELSE done

\* getattr(widget, sig).connect(slot)
Connect(st, sig, slot) ==
    [st EXCEPT !.log = Append(@, Invocation("connect", sig, <<slot>>))]

-----------------------------------------------------------------------------
(* The decorators.  Each gets the keyword arguments (and the positional    *)
(* ones) of the call and the state the wrapped function left.              *)

window_ops_set(kw, st) ==
    LET window_size == Get(kw, "window_size")
        window_title == Get(kw, "window_title")
        sized ==
            IF window_size = PyNone THEN st
            ELSE IF window_size.t # "tuple" \/ Len(window_size.e) # 2
                 THEN Raise(st, "TypeError", "window_size")
            ELSE IF \E i \in 1..2 : ~IsInstance(window_size.e[i], "int")
                                     \/ window_size.e[i].v <= 0
                 THEN Raise(st, "ValueError", "size")
            ELSE Invoke(st, "resize", window_size.e)
    IN IF Raised(sized) \/ window_title = PyNone THEN sized
       ELSE IF ~IsInstance(window_title, "str") THEN Raise(sized, "TypeError", "title")
       ELSE Invoke(sized, "setWindowTitle", <<window_title>>)

\* a block that sets before it validates
SizeBlockSetFirst(st, val, p, m) ==
    IF Raised(st) \/ val = PyNone THEN st
    ELSE IF ~IsInstance(val, "int") \/ val.v < 0
         THEN Raise(Invoke(st, m, <<val>>), "ValueError", p)
    ELSE Invoke(st, m, <<val>>)

\* one of the four blocks of set_widget_size: validate, then set
SizeBlock(st, val, p, m) ==
    IF Raised(st) \/ val = PyNone THEN st
    ELSE IF ~IsInstance(val, "int") \/ val.v < 0 THEN Raise(st, "ValueError", p)
    ELSE Invoke(st, m, <<val>>)

set_widget_size(kw, st) ==
    LET min_width == Get(kw, "min_width")
        max_width == Get(kw, "max_width")
        min_height == Get(kw, "min_height")
        max_height == Get(kw, "max_height")
        s1 == SizeBlock(st, min_width, "min_width", "setMinimumWidth")
        s2 == SizeBlock(s1, max_width, "max_width", "setMaximumWidth")
        s3 == SizeBlock(s2, min_height, "min_height", "setMinimumHeight")
        s4 == SizeBlock(s3, max_height, "max_height", "setMaximumHeight")
    IN IF Raised(s4) THEN s4
       ELSE IF min_width # PyNone /\ max_width # PyNone /\ min_width.v > max_width.v
            THEN Raise(s4, "ValueError", "min_width")
       ELSE IF min_height # PyNone /\ max_height # PyNone /\ min_height.v > max_height.v
            THEN Raise(s4, "ValueError", "min_height")
       ELSE s4

set_widget_object_name(kw, st) ==
    LET object_name == Get(kw, "object_name")
    IN IF Truthy(object_name) THEN Invoke(st, "setObjectName", <<object_name>>) ELSE st

set_widget_style_sheet(kw, st) ==
    LET css == Get(kw, "css")
    IN IF Truthy(css) THEN Invoke(st, "setStyleSheet", <<css>>) ELSE st

set_widget_tooltip(kw, st) ==
    LET tooltip_text == Get(kw, "tooltip")
        tooltip_duration == Get(kw, "tooltip_duration_ms")
        s1 == IF Truthy(tooltip_text) THEN Invoke(st, "setToolTip", <<tooltip_text>>)
              ELSE st
    IN IF ~Raised(s1) /\ tooltip_duration # PyNone
       THEN Invoke(s1, "setToolTipDuration", <<tooltip_duration>>)
       ELSE s1

set_widget_shortcut(kw, st) ==
    LET shortcut == Get(kw, "shortcut")
    IN IF Truthy(shortcut) THEN Invoke(st, "setShortcut", <<shortcut>>) ELSE st

set_widget_icon(kw, st) ==
    LET icon == Get(kw, "icon")
        icon_size == Get(kw, "icon_size")
    IN IF ~Truthy(icon) THEN st
       ELSE LET s1 == Invoke(st, "setIcon", <<icon>>)
            IN IF ~Raised(s1) /\ Truthy(icon_size)
               THEN Invoke(s1, "setIconSize", <<PyTuple(SubSeq(icon_size.e, 1, 2))>>)
               ELSE s1

set_widget_text(kw, args, st) ==
    LET given == Get(kw, "text")
        text == IF given = PyNone /\ Len(args) > 0 /\ IsInstance(args[1], "str")
                THEN args[1] ELSE given
    IN IF text # PyNone THEN Invoke(st, "setText", <<text>>) ELSE st

connect_slot(signal_name, parameter_name, kw, st) ==
    LET slot == Get(kw, parameter_name)
    IN IF slot = PyNone THEN st
       ELSE IF ~Callable(slot) THEN Raise(st, "TypeError", parameter_name)
       ELSE Connect(st, signal_name, slot)

\* a validation that pairs values with types and stops at the shorter of the two
set_widget_attribute_zip(method_name, param_name, param_types, tup, kw, st) ==
    LET param_value == Get(kw, param_name)
        applied == Invoke(st, method_name,
                          IF param_value.t = "tuple" THEN param_value.e
                          ELSE <<param_value>>)
    IN IF param_value = PyNone THEN st
       ELSE IF tup
            THEN IF param_value.t # "tuple"
                 THEN Raise(st, "TypeError", param_name)
                 ELSE IF \E i \in 1..Len(param_types) :
                            i <= Len(param_value.e) /\ ~IsInstance(param_value.e[i], param_types[i])
                 THEN Raise(st, "TypeError", param_name)
                 ELSE applied
            ELSE IF ~IsInstance(param_value, param_types[1])
                 THEN Raise(st, "TypeError", param_name)
                 ELSE applied

\* param_types is a tuple of types (tup) or one type; default_value is never given
set_widget_attribute(method_name, param_name, param_types, tup, kw, st) ==
    LET param_value == Get(kw, param_name)
        applied == Invoke(st, method_name,
                          IF param_value.t = "tuple" THEN param_value.e
                          ELSE <<param_value>>)
    IN IF param_value = PyNone THEN st
       ELSE IF tup
            THEN IF param_value.t # "tuple" \/ Len(param_value.e) # Len(param_types)
                 THEN Raise(st, "TypeError", param_name)
                 ELSE IF \E i \in 1..Len(param_types) :
                            ~IsInstance(param_value.e[i], param_types[i])
                 THEN Raise(st, "TypeError", param_name)
                 ELSE applied
            ELSE IF ~IsInstance(param_value, param_types[1])
                 THEN Raise(st, "TypeError", param_name)
                 ELSE applied

call_widget_method(method_name, st) == Invoke(st, method_name, <<>>)

-----------------------------------------------------------------------------
(* The factories: signature, decorator stack and body of each.             *)

Factories ==
    {"Button", "Label", "SpinBox", "DoubleSpinBox", "Slider", "CheckBox", "RadioButton", "ComboBox",
     "Splitter", "SpacerItem", "ScrollArea", "StackedWidget", "Widget", "MainWindow"}

\* the class a factory constructs when it is given no instance
Class(f) ==
    CASE f = "Button" -> "QPushButton"
      [] f = "Label" -> "QLabel"
      [] f = "SpinBox" -> "QSpinBox"
      [] f = "DoubleSpinBox" -> "QDoubleSpinBox"
      [] f = "Slider" -> "QSlider"
      [] f = "CheckBox" -> "QCheckBox"
      [] f = "RadioButton" -> "QRadioButton"
      [] f = "ComboBox" -> "QComboBox"
      [] f = "Splitter" -> "QSplitter"
      [] f = "SpacerItem" -> "QSpacerItem"
      [] f = "ScrollArea" -> "QScrollArea"
      [] f = "StackedWidget" -> "QStackedWidget"
      [] f = "Widget" -> "QWidget"
      [] f = "MainWindow" -> "QMainWindow"
      [] f = "ToolButton" -> "QToolButton"
      [] f = "DockWidget" -> "QDockWidget"

\* the keyword through which a factory accepts an existing instance
InstKey(f) ==
    CASE f = "Splitter" -> "splitter"
      [] f = "ScrollArea" -> "scroll_area"
      [] f = "DockWidget" -> ""
      [] OTHER -> "widget"

SizeKeys == {"min_width", "max_width", "min_height", "max_height"}

\* the parameters a factory may be given positionally, in order
Positional(f) ==
    CASE f \in {"Button", "Label", "CheckBox", "RadioButton"} -> <<"text">>
      [] f = "Splitter" -> <<"widgets">>
      [] f = "ToolButton" -> <<"text", "button_style">>
      [] f = "DockWidget" -> <<"title", "widget">>
      [] OTHER -> <<>>

\* the parameter names of the factory's signature
Declared(f) ==
    CASE f = "Button" ->
            {"text", "widget", "object_name", "on_click", "icon", "icon_size", "css",
             "shortcut", "tooltip", "tooltip_duration_ms"} \cup SizeKeys
      [] f = "ToolButton" ->
            {"text", "button_style", "widget", "object_name", "on_click", "icon",
             "icon_size", "css", "shortcut", "tooltip", "tooltip_duration_ms"}
            \cup SizeKeys
      [] f = "DockWidget" -> {"title", "widget", "object_name", "css"} \cup SizeKeys
      [] f = "Label" ->
            {"text", "widget", "object_name", "css", "pixmap", "alignment"} \cup SizeKeys
      [] f = "SpinBox" ->
            {"value_range", "value", "single_step", "on_value_changed", "widget",
             "object_name", "css"} \cup SizeKeys
      [] f = "DoubleSpinBox" ->
            {"decimals", "value_range", "value", "single_step", "widget",
             "on_value_changed", "object_name", "css"} \cup SizeKeys
      [] f = "Slider" ->
            {"orientation", "value_range", "value", "single_step", "page_step",
             "on_value_changed", "widget", "object_name", "css"} \cup SizeKeys
      [] f = "CheckBox" ->
            {"text", "checked", "on_released", "on_state_changed", "widget",
             "object_name", "icon", "icon_size", "css"} \cup SizeKeys
      [] f = "RadioButton" ->
            {"text", "checked", "on_released", "on_toggled", "widget", "object_name",
             "icon", "icon_size", "css"} \cup SizeKeys
      [] f = "ComboBox" ->
            {"selected_item", "items", "on_index_changed", "widget", "object_name",
             "icon", "icon_size", "css"} \cup SizeKeys
      [] f = "Splitter" ->
            {"widgets", "sizes", "splitter", "orientation", "object_name", "css",
             "margin"} \cup SizeKeys
      [] f = "SpacerItem" ->
            {"width", "height", "horizontal_policy", "vertical_policy", "widget"}
      [] f = "ScrollArea" ->
            {"scroll_area", "parent", "widget", "object_name", "css", "resizable"}
      [] f = "StackedWidget" ->
            {"widget", "layout", "pages", "current_page_index", "current_page",
             "object_name", "css"} \cup SizeKeys
      [] f = "Widget" ->
            {"widget", "layout", "object_name", "window_size", "window_title", "show",
             "css"} \cup SizeKeys
      [] f = "MainWindow" ->
            {"widget", "window_size", "window_title", "central_widget", "docks",
             "menubar", "toolbars", "statusbar", "css", "show"}

Horizontal == Obj("Orientation", 1)
Expanding == Obj("Policy", 7)
ToolBarNextLine == Obj("type", 1)
ToolButtonTextUnderIcon == Obj("ToolButtonStyle", 3)

\* the default a signature gives a parameter
Default(f, name) ==
    CASE f = "SpinBox" /\ name = "value_range" -> PyTuple(<<PyInt(0), PyInt(1000)>>)
      [] f = "SpinBox" /\ name \in {"value", "single_step"} -> PyInt(1)
      [] f = "DoubleSpinBox" /\ name = "value_range" ->
            PyTuple(<<PyFloat(0), PyFloat(1000)>>)
      [] f = "DoubleSpinBox" /\ name \in {"value", "single_step"} -> PyFloat(1)
      [] f = "DoubleSpinBox" /\ name = "decimals" -> PyInt(3)
      [] f = "Slider" /\ name = "value_range" -> PyTuple(<<PyInt(0), PyInt(100)>>)
      [] f = "Slider" /\ name = "value" -> PyInt(0)
      [] f = "Slider" /\ name = "single_step" -> PyInt(1)
      [] f = "Slider" /\ name = "page_step" -> PyInt(10)
      [] f \in {"Slider", "Splitter"} /\ name = "orientation" -> Horizontal
      [] f \in {"CheckBox", "RadioButton", "Widget", "MainWindow"}
           /\ name \in {"checked", "show"} -> PyBool(FALSE)
      [] f = "SpacerItem" /\ name \in {"horizontal_policy", "vertical_policy"} -> Expanding
      [] f = "ScrollArea" /\ name = "resizable" -> PyBool(TRUE)
      [] f = "ToolButton" /\ name = "button_style" -> ToolButtonTextUnderIcon
      [] OTHER -> PyNone

Decorator(d, m, p, ty) == [d |-> d, m |-> m, p |-> p, ty |-> ty, tup |-> FALSE]
Plain(d) == Decorator(d, "", "", <<>>)
Slot(sig, p) == Decorator("connect_slot", sig, p, <<>>)
Attr(m, p, ty) == Decorator("set_widget_attribute", m, p, <<ty>>)
Method(m) == Decorator("call_widget_method", m, "", <<>>)

\* the decorators of a factory in the order they act: the one next to the function first
Chain(f) ==
    CASE f = "Button" ->
            <<Slot("clicked", "on_click"), Plain("set_widget_tooltip"),
              Plain("set_widget_size"), Plain("set_widget_shortcut"),
              Plain("set_widget_icon"), Plain("set_widget_text"),
              Plain("set_widget_style_sheet"), Plain("set_widget_object_name")>>
      [] f = "ToolButton" ->
            <<Slot("clicked", "on_click"),
              Attr("setToolButtonStyle", "button_style", "ToolButtonStyle"),
              Plain("set_widget_tooltip"), Plain("set_widget_size"),
              Plain("set_widget_shortcut"), Plain("set_widget_icon"),
              Plain("set_widget_text"), Plain("set_widget_style_sheet"),
              Plain("set_widget_object_name")>>
      [] f = "DockWidget" ->
            <<Attr("setWidget", "widget", "QWidget"),
              Attr("setWindowTitle", "title", "str"), Plain("set_widget_size"),
              Plain("set_widget_style_sheet"), Plain("set_widget_object_name")>>
      [] f = "Label" ->
            <<Slot("clicked", "on_click"), Attr("setPixmap", "pixmap", "QPixmap"),
              Attr("setAlignment", "alignment", "AlignmentFlag"),
              Plain("set_widget_size"), Plain("set_widget_shortcut"),
              Plain("set_widget_text"), Plain("set_widget_style_sheet"),
              Plain("set_widget_object_name")>>
      [] f = "SpinBox" ->
            <<Slot("valueChanged", "on_value_changed"), Attr("value", "value", "int"),
              Attr("singleStep", "single_step", "int"),
              Plain("set_widget_style_sheet"), Plain("set_widget_object_name")>>
      [] f = "DoubleSpinBox" ->
            <<Slot("valueChanged", "on_value_changed"), Plain("set_widget_size"),
              Plain("set_widget_style_sheet"), Plain("set_widget_object_name")>>
      [] f = "Slider" ->
            <<Slot("valueChanged", "on_value_changed"), Attr("setValue", "value", "int"),
              Attr("setPageStep", "page_step", "int"),
              Attr("setSingleStep", "single_step", "int"),
              Attr("setOrientation", "orientation", "Orientation"),
              Plain("set_widget_size"), Plain("set_widget_style_sheet"),
              Plain("set_widget_object_name")>>
      [] f = "CheckBox" ->
            <<Slot("stateChanged", "on_state_changed"), Slot("released", "on_released"),
              Plain("set_widget_size"), Plain("set_widget_icon"),
              Plain("set_widget_text"), Plain("set_widget_style_sheet"),
              Plain("set_widget_object_name")>>
      [] f = "RadioButton" ->
            <<Slot("toggled", "on_toggled"), Slot("released", "on_released"),
              Attr("setChecked", "checked", "bool"), Plain("set_widget_size"),
              Plain("set_widget_icon"), Plain("set_widget_text"),
              Plain("set_widget_style_sheet"), Plain("set_widget_object_name")>>
      [] f = "ComboBox" ->
            <<Slot("currentIndexChanged", "on_index_changed"), Plain("set_widget_size"),
              Plain("set_widget_icon"), Plain("set_widget_style_sheet"),
              Plain("set_widget_object_name")>>
      [] f \in {"Splitter", "StackedWidget"} ->
            <<Plain("set_widget_size"), Plain("set_widget_style_sheet"),
              Plain("set_widget_object_name")>>
      [] f = "SpacerItem" -> <<>>
      [] f = "ScrollArea" ->
            <<Plain("set_widget_style_sheet"), Plain("set_widget_object_name")>>
      [] f = "Widget" ->
            <<Method("show"), Attr("setLayout", "layout", "QLayout"),
              Plain("set_widget_size"), Plain("window_ops_set"),
              Plain("set_widget_style_sheet"), Plain("set_widget_object_name")>>
      [] f = "MainWindow" ->
            <<Method("show"), Plain("set_widget_style_sheet"), Plain("window_ops_set")>>

\* a decorator that acts even when the function it wraps has raised
DecorateAnyway(d, kw, args, st) ==
    CASE d.d = "connect_slot" -> connect_slot(d.m, d.p, kw, st)
      [] d.d = "set_widget_attribute" -> set_widget_attribute(d.m, d.p, d.ty, d.tup, kw, st)
      [] d.d = "call_widget_method" -> call_widget_method(d.m, st)
      [] d.d = "set_widget_size" -> set_widget_size(kw, st)
      [] d.d = "set_widget_object_name" -> set_widget_object_name(kw, st)
      [] d.d = "set_widget_style_sheet" -> set_widget_style_sheet(kw, st)
      [] d.d = "set_widget_tooltip" -> set_widget_tooltip(kw, st)
      [] d.d = "set_widget_shortcut" -> set_widget_shortcut(kw, st)
      [] d.d = "set_widget_icon" -> set_widget_icon(kw, st)
      [] d.d = "set_widget_text" -> set_widget_text(kw, args, st)
      [] d.d = "window_ops_set" -> window_ops_set(kw, st)

\* one decorator acting on what the wrapped function returned; an exception raised
\* below it passes through
Decorate(d, kw, args, st) ==
    IF Raised(st) THEN st
    ELSE CASE d.d = "connect_slot" -> connect_slot(d.m, d.p, kw, st)
           [] d.d = "set_widget_attribute" ->
                set_widget_attribute(d.m, d.p, d.ty, d.tup, kw, st)
           [] d.d = "call_widget_method" -> call_widget_method(d.m, st)
           [] d.d = "set_widget_size" -> set_widget_size(kw, st)
           [] d.d = "set_widget_object_name" -> set_widget_object_name(kw, st)
           [] d.d = "set_widget_style_sheet" -> set_widget_style_sheet(kw, st)
           [] d.d = "set_widget_tooltip" -> set_widget_tooltip(kw, st)
           [] d.d = "set_widget_shortcut" -> set_widget_shortcut(kw, st)
           [] d.d = "set_widget_icon" -> set_widget_icon(kw, st)
           [] d.d = "set_widget_text" -> set_widget_text(kw, args, st)
           [] d.d = "window_ops_set" -> window_ops_set(kw, st)

\* the keywords a decorator reads
KeysRead(d) ==
    CASE d.d \in {"connect_slot", "set_widget_attribute"} -> {d.p}
      [] d.d = "call_widget_method" -> {}
      [] d.d = "set_widget_size" -> SizeKeys
      [] d.d = "set_widget_object_name" -> {"object_name"}
      [] d.d = "set_widget_style_sheet" -> {"css"}
      [] d.d = "set_widget_tooltip" -> {"tooltip", "tooltip_duration_ms"}
      [] d.d = "set_widget_shortcut" -> {"shortcut"}
      [] d.d = "set_widget_icon" -> {"icon", "icon_size"}
      [] d.d = "set_widget_text" -> {"text"}
      [] d.d = "window_ops_set" -> {"window_size", "window_title"}

-----------------------------------------------------------------------------
(* The factory functions themselves *)

\* the value Python binds to parameter `name` of factory f
Arg(f, kw, args, name) ==
    IF \E i \in 1..Len(args) : Positional(f)[i] = name
    THEN args[CHOOSE i \in 1..Len(args) : Positional(f)[i] = name]
    ELSE IF name \in DOMAIN kw THEN kw[name] ELSE Default(f, name)

\* the call cannot be bound to the signature: Python raises TypeError before the
\* function runs (too many positionals, an unexpected keyword, a parameter given twice)
Unbindable(f, kw, args) ==
    \/ Len(args) > Len(Positional(f))
    \/ \E k \in DOMAIN kw : k \notin Declared(f)
    \/ \E i \in 1..Len(args) : i <= Len(Positional(f)) /\ Positional(f)[i] \in DOMAIN kw

NewTarget(cls, fresh) ==
    [id |-> fresh, cls |-> cls, log |-> <<>>, err |-> NoErr, new |-> TRUE]

\* `if widget is None: widget = QClass()`
Target(f, inst, fresh) ==
    IF inst = PyNone THEN NewTarget(Class(f), fresh)
    ELSE [id |-> inst.v, cls |-> inst.t, log |-> <<>>, err |-> NoErr, new |-> FALSE]

\* a range block that does not compare the two bounds
SetRangeUnordered(st, value_range, numty) ==
    IF value_range = PyNone THEN st
    ELSE IF ~(value_range.t = "tuple" /\ Len(value_range.e) = 2)
         THEN Raise(st, "ValueError", "value_range")
    ELSE IF ~(IsInstance(value_range.e[1], numty) /\ IsInstance(value_range.e[2], numty))
         THEN Raise(st, "ValueError", "value_range")
    ELSE Invoke(st, "setRange", value_range.e)

\* the value_range block of SpinBox, DoubleSpinBox (numty "number") and Slider
\* (numty "int")
SetRange(st, value_range, numty) ==
    IF value_range = PyNone THEN st
    ELSE IF ~(value_range.t = "tuple" /\ Len(value_range.e) = 2)
         THEN Raise(st, "ValueError", "value_range")
    ELSE IF ~(IsInstance(value_range.e[1], numty) /\ IsInstance(value_range.e[2], numty))
         THEN Raise(st, "ValueError", "value_range")
    ELSE IF value_range.e[1].v > value_range.e[2].v
         THEN Raise(st, "ValueError", "value_range")
    ELSE Invoke(st, "setRange", value_range.e)

\* DoubleSpinBox after its range block: decimals, single_step, value
DoubleSpinBoxBody(st, decimals, single_step, value) ==
    LET a == IF Raised(st) \/ decimals = PyNone THEN st
             ELSE IF ~IsInstance(decimals, "int") \/ decimals.v < 0
                  THEN Raise(st, "ValueError", "decimals")
             ELSE Invoke(st, "setDecimals", <<decimals>>)
        b == IF Raised(a) \/ single_step = PyNone THEN a
             ELSE Invoke(a, "setSingleStep", <<single_step>>)
    IN IF Raised(b) \/ value = PyNone THEN b ELSE Invoke(b, "setValue", <<value>>)

\* `for x in xs: widget.m(x)`
RECURSIVE InvokeEach(_, _, _, _)
InvokeEach(st, m, xs, i) ==
    IF i > Len(xs) \/ Raised(st) THEN st
    ELSE InvokeEach(Invoke(st, m, <<xs[i]>>), m, xs, i + 1)

\* the items loop of ComboBox: the state and selected_index it ends with
RECURSIVE AddItems(_, _, _, _, _)
AddItems(st, items, selected_item, i, selected_index) ==
    IF i > Len(items) THEN [st |-> st, idx |-> selected_index]
    ELSE IF ~IsInstance(items[i], "str")
         THEN [st |-> Raise(st, "ValueError", "items"), idx |-> selected_index]
    ELSE AddItems(Invoke(st, "addItem", <<items[i]>>), items, selected_item, i + 1,
                  IF items[i] = selected_item THEN i - 1 ELSE selected_index)

ComboBoxBody(st, items, selected_item) ==
    LET added == IF Truthy(items) THEN AddItems(st, items.e, selected_item, 1, 0)
                 ELSE [st |-> st, idx |-> 0]
    IN IF Raised(added.st) THEN added.st
       ELSE Invoke(added.st, "setCurrentIndex", <<PyInt(added.idx)>>)

SplitterBody(st, margin, orientation, widgets, sizes) ==
    LET s1 == IF margin # PyNone
              THEN Invoke(st, "setContentsMargins", <<margin, margin, margin, margin>>)
              ELSE st
        s2 == IF orientation # PyNone THEN Invoke(s1, "setOrientation", <<orientation>>)
              ELSE s1
        s3 == IF widgets # PyNone THEN InvokeEach(s2, "addWidget", widgets.e, 1) ELSE s2
    IN IF sizes # PyNone THEN Invoke(s3, "setSizes", <<sizes>>) ELSE s3

ScrollAreaBody(st, widget, resizable) ==
    LET s1 == IF widget # PyNone THEN Invoke(st, "setWidget", <<widget>>) ELSE st
    IN IF resizable # PyNone THEN Invoke(s1, "setWidgetResizable", <<resizable>>) ELSE s1

StackedWidgetBody(st, layout, pages, current_page_index, current_page) ==
    LET s1 == IF layout # PyNone THEN Invoke(st, "setLayout", <<layout>>) ELSE st
        s2 == IF pages # PyNone THEN InvokeEach(s1, "addWidget", pages.e, 1) ELSE s1
    IN IF current_page_index # PyNone
       THEN Invoke(s2, "setCurrentIndex", <<current_page_index>>)
       ELSE IF current_page # PyNone THEN Invoke(s2, "setCurrentWidget", <<current_page>>)
       ELSE s2

\* `for area, dock in docks: widget.addDockWidget(area, dock)`
RECURSIVE AddDocks(_, _, _)
AddDocks(st, docks, i) ==
    IF i > Len(docks) THEN st
    ELSE AddDocks(Invoke(st, "addDockWidget", docks[i].e), docks, i + 1)

RECURSIVE AddToolBars(_, _, _)
AddToolBars(st, toolbars, i) ==
    IF i > Len(toolbars) THEN st
    ELSE IF toolbars[i] = ToolBarNextLine
         THEN AddToolBars(Invoke(st, "addToolBarBreak", <<>>), toolbars, i + 1)
    ELSE IF IsInstance(toolbars[i], "QToolBar")
         THEN AddToolBars(Invoke(st, "addToolBar", <<toolbars[i]>>), toolbars, i + 1)
    ELSE Raise(st, "TypeError", "toolbars")

MainWindowBody(st, central_widget, docks, menubar, toolbars, statusbar) ==
    LET s1 == IF IsInstance(central_widget, "QWidget")
              THEN Invoke(st, "setCentralWidget", <<central_widget>>) ELSE st
        s2 == IF docks # PyNone THEN AddDocks(s1, docks.e, 1) ELSE s1
        s3 == IF menubar # PyNone THEN Invoke(s2, "setMenuBar", <<menubar>>) ELSE s2
        s4 == IF toolbars # PyNone THEN AddToolBars(s3, toolbars.e, 1) ELSE s3
    IN IF Raised(s4) \/ statusbar = PyNone THEN s4
       ELSE Invoke(s4, "setStatusBar", <<statusbar>>)

\* the body of factory f, run on a call that binds; `fresh` is the index a newly
\* constructed object gets
Body(f, kw, args, fresh) ==
    LET A(name) == Arg(f, kw, args, name)
        st == Target(f, A(InstKey(f)), fresh)
    IN CASE f \in {"Button", "Label", "RadioButton", "ToolButton"} -> st
         [] f = "DockWidget" -> NewTarget("QDockWidget", fresh)
         [] f = "SpinBox" -> SetRange(st, A("value_range"), "number")
         [] f = "DoubleSpinBox" ->
              DoubleSpinBoxBody(SetRange(st, A("value_range"), "number"), A("decimals"),
                                A("single_step"), A("value"))
         [] f = "Slider" -> SetRange(st, A("value_range"), "int")
         [] f = "CheckBox" -> Invoke(st, "setChecked", <<A("checked")>>)
         [] f = "ComboBox" -> ComboBoxBody(st, A("items"), A("selected_item"))
         [] f = "Splitter" ->
              SplitterBody(st, A("margin"), A("orientation"), A("widgets"), A("sizes"))
         [] f = "SpacerItem" -> NewTarget("QSpacerItem", fresh)
         [] f = "ScrollArea" -> ScrollAreaBody(st, A("widget"), A("resizable"))
         [] f = "StackedWidget" ->
              StackedWidgetBody(st, A("layout"), A("pages"), A("current_page_index"),
                                A("current_page"))
         [] f = "Widget" ->
              IF A("layout") # PyNone THEN Invoke(st, "setLayout", <<A("layout")>>)
              ELSE st
         [] f = "MainWindow" ->
              MainWindowBody(st, A("central_widget"), A("docks"), A("menubar"),
                             A("toolbars"), A("statusbar"))

\* the decorators from the i-th on, acting in turn
RECURSIVE Decorated(_, _, _, _, _)
Decorated(f, kw, args, st, i) ==
    IF i > Len(Chain(f)) THEN st
    ELSE Decorated(f, kw, args, Decorate(Chain(f)[i], kw, args, st), i + 1)

\* the call as far as its n-th decorator: the wrapped function, then decorators 1..n
RECURSIVE Staged(_, _, _, _, _)
Staged(f, kw, args, fresh, n) ==
    IF n = 0 THEN Body(f, kw, args, fresh)
    ELSE Decorate(Chain(f)[n], kw, args, Staged(f, kw, args, fresh, n - 1))

\* the whole call f(*args, **kw): the wrapped function, then its decorators
Run(f, kw, args, fresh) ==
    IF Unbindable(f, kw, args)
    THEN [id |-> 0, cls |-> "", log |-> <<>>, err |-> [kind |-> "TypeError", p |-> ""],
          new |-> FALSE]
    ELSE Decorated(f, kw, args, Body(f, kw, args, fresh), 1)

-----------------------------------------------------------------------------
(* The calls a program makes: the inputs drawn for them *)

Callbacks ==
    {"on_click", "on_value_changed", "on_released", "on_state_changed", "on_toggled",
     "on_index_changed"}

\* the values tried for keyword k: valid ones, and the invalid ones the code tests for
Vals(f, k) ==
    CASE k \in Callbacks -> {PyFn(1), PyInt(5)}
      [] k = "text" -> {PyStr(1)}
      [] k = "object_name" -> {PyStr(2)}
      [] k = "css" -> {PyStr(3), PyStr(0)}
      [] k = "tooltip" -> {PyStr(4), PyStr(0)}
      [] k = "tooltip_duration_ms" -> {PyInt(500)}
      [] k = "shortcut" -> {PyStr(5)}
      [] k = "icon" -> {Obj("QIcon", -1)}
      [] k = "icon_size" -> {PyTuple(<<PyInt(16), PyInt(16)>>)}
      [] k = "min_width" -> {PyInt(2), PyInt(-1)}
      [] k = "max_width" -> {PyInt(1), PyInt(3)}
      [] k = "min_height" -> {PyInt(2), PyStr(1)}
      [] k = "max_height" -> {PyInt(1)}
      [] k = "pixmap" -> {Obj("QPixmap", -1), PyStr(1)}
      [] k = "alignment" -> {Obj("AlignmentFlag", 4)}
      [] k = "value_range" /\ f = "DoubleSpinBox" ->
            {PyTuple(<<PyFloat(0), PyFloat(5)>>), PyTuple(<<PyFloat(5), PyInt(0)>>),
             PyTuple(<<PyFloat(2), PyFloat(2)>>), PyNone}
      [] k = "value_range" /\ f # "DoubleSpinBox" ->
            {PyTuple(<<PyInt(0), PyInt(5)>>), PyTuple(<<PyInt(5), PyInt(0)>>),
             PyTuple(<<PyInt(2), PyInt(2)>>), PyNone}
      [] k = "decimals" -> {PyInt(2), PyInt(-1)}
      [] k = "value" -> {PyInt(3), PyStr(1), PyNone}
      [] k = "single_step" -> {PyInt(2)}
      [] k = "page_step" -> {PyInt(5)}
      [] k = "orientation" -> {Obj("Orientation", 2), PyInt(1)}
      [] k = "checked" -> {PyBool(TRUE), PyInt(1)}
      [] k = "selected_item" -> {PyStr(2), PyStr(9)}
      [] k = "items" -> {PyList(<<PyStr(1), PyStr(2)>>), PyList(<<PyStr(1), PyInt(7)>>)}
      [] k \in {"widgets", "pages"} -> {PyList(<<Obj("QWidget", -1), Obj("QWidget", -2)>>)}
      [] k = "sizes" -> {PyList(<<PyInt(1), PyInt(2)>>)}
      [] k = "margin" -> {PyInt(4)}
      [] k \in {"widget", "central_widget"} -> {Obj("QWidget", -1)}
      [] k \in {"parent", "current_page"} -> {Obj("QWidget", -2)}
      [] k = "resizable" -> {PyBool(FALSE), PyNone}
      [] k = "layout" -> {Obj("QVBoxLayout", -3), PyStr(1)}
      [] k = "current_page_index" -> {PyInt(1)}
      [] k = "window_size" ->
            {PyTuple(<<PyInt(4), PyInt(3)>>), PyTuple(<<PyInt(0), PyInt(3)>>), PyInt(4)}
      [] k = "window_title" -> {PyStr(6), PyInt(5)}
      [] k = "title" -> {PyStr(6), PyInt(5)}
      [] k = "button_style" -> {Obj("ToolButtonStyle", 2), PyInt(2)}
      [] k = "show" -> {PyBool(TRUE), PyBool(FALSE)}
      [] k = "docks" ->
            {PyList(<<PyTuple(<<Obj("DockWidgetArea", 1), Obj("QDockWidget", -4)>>)>>)}
      [] k = "menubar" -> {Obj("QMenuBar", -5)}
      [] k = "toolbars" ->
            {PyList(<<Obj("QToolBar", -6), ToolBarNextLine>>), PyList(<<PyStr(1)>>)}
      [] k = "statusbar" -> {Obj("QStatusBar", -7)}
      [] k \in {"width", "height"} -> {PyInt(1)}
      [] k \in {"horizontal_policy", "vertical_policy"} -> {Obj("Policy", 1)}
      [] k = "window_ops" -> {Obj("WindowOps", -8)}

\* the keywords tried on factory f: those of its signature (the instance keyword is
\* drawn apart), those its decorators read, and one that nothing recognizes
InputKeys(f) ==
    ((Declared(f) \cup UNION {KeysRead(Chain(f)[i]) : i \in 1..Len(Chain(f))}
        \cup {"window_ops"}) \ {InstKey(f)})
    \cup (IF f = "ScrollArea" THEN {"widget"} ELSE {})

RECURSIVE BagsOver(_, _)
BagsOver(f, K) ==
    IF K = {} THEN {<<>>}
    ELSE LET k == CHOOSE x \in K : TRUE
         IN {(k :> v) @@ b : v \in Vals(f, k), b \in BagsOver(f, K \ {k})}

\* the configuration bags tried on factory f
Bags(f) ==
    UNION {BagsOver(f, K) : K \in {S \in SUBSET InputKeys(f) : Cardinality(S) <= MaxKeys}}

\* the positional arguments tried on factory f
ArgsOf(f) ==
    CASE Positional(f) = <<"text">> -> {<<>>, <<PyStr(7)>>}
      [] f = "ToolButton" ->
            {<<>>, <<PyStr(7)>>, <<PyStr(7), Obj("ToolButtonStyle", 2)>>}
      [] f = "DockWidget" -> {<<>>, <<PyStr(7)>>, <<PyStr(7), Obj("QWidget", 0 - 1)>>}
      [] OTHER -> {<<>>}

-----------------------------------------------------------------------------
(* State and actions of the factory layer *)

NoCall ==
    [f |-> "", kw |-> <<>>, args |-> <<>>, inst |-> 0, tgt |-> 0, ret |-> 0,
     err |-> NoErr, made |-> <<>>, again |-> FALSE]

\* the heap once the call has run: a constructed object is added, a given one
\* has gained the invocations made on it
Commit(h, st) ==
    IF st.id = 0 THEN h
    ELSE IF st.new THEN Append(h, [cls |-> st.cls, log |-> st.log])
    ELSE [h EXCEPT ![st.id].log = @ \o st.log]

\* what the call leaves on record: inst the instance given (0: none), tgt the
\* object acted on, ret the object returned (0: the call raised), made the
\* invocations of this call
Outcome(f, kw, args, st, again) ==
    [f |-> f, kw |-> kw, args |-> args,
     inst |-> IF InstKey(f) \in DOMAIN kw THEN kw[InstKey(f)].v ELSE 0,
     tgt |-> st.id, ret |-> IF Raised(st) THEN 0 ELSE st.id, err |-> st.err,
     made |-> st.log, again |-> again]

\* the call f(*args, **kw) made with the heap as h
Calls(f, kw, args, h, again) ==
    LET st == Run(f, kw, args, Len(h) + 1)
    IN /\ heap' = Commit(h, st)
       /\ call' = Outcome(f, kw, args, st, again)
       /\ ncalls' = ncalls + 1
       /\ UNCHANGED <<lvars, dvars>>

\* a factory called with no instance given: the first call of the behaviour
CallNew ==
    /\ ncalls = 0
    /\ \E f \in Factories : \E kw \in Bags(f) : \E args \in ArgsOf(f) :
          Calls(f, kw, args, heap, FALSE)

\* the caller constructs an instance of the factory's class and passes it in
CallExisting ==
    /\ ncalls = 0
    /\ \E f \in Factories : \E kw0 \in Bags(f) : \E args \in ArgsOf(f) :
          LET h == Append(heap, [cls |-> Class(f), log |-> <<>>])
          IN Calls(f, (InstKey(f) :> Obj(Class(f), Len(h))) @@ kw0, args, h, FALSE)

\* the same factory called again on the instance it returned, with the same
\* configuration
Reconfigure ==
    /\ 0 < ncalls /\ ncalls < MaxCalls
    /\ call.ret # 0
    /\ Calls(call.f, (InstKey(call.f) :> Obj(heap[call.ret].cls, call.ret)) @@ call.kw,
             call.args, heap, TRUE)

\* the caller passes ComboBox a QComboBox it has already given an item
CallPopulated ==
    /\ ncalls = 0
    /\ \E kw0 \in Bags("ComboBox") :
          LET h == Append(heap, [cls |-> "QComboBox",
                                 log |-> <<Invocation("call", "addItem", <<PyStr(2)>>)>>])
          IN Calls("ComboBox", ("widget" :> Obj("QComboBox", Len(h))) @@ kw0, <<>>, h, FALSE)

FNext == CallNew \/ CallExisting \/ Reconfigure \/ CallPopulated

\* the factories whose signature takes an option positionally as well as by keyword
PositionalFactories == {"Button", "ToolButton", "DockWidget"}

\* one of them called once, its leading options given positionally or by keyword
CallPositional ==
    /\ ncalls = 0
    /\ \E f \in PositionalFactories : \E kw \in Bags(f) : \E args \in ArgsOf(f) :
          Calls(f, kw, args, heap, FALSE)

PNext == CallPositional

-----------------------------------------------------------------------------
(* The decorators applied on their own, to one keyword bag *)

ElemTypes == {"int", "str"}
ElemVals == {PyInt(1), PyStr(1), PyBool(TRUE)}

RECURSIVE SeqsOf(_, _)
SeqsOf(S, n) ==
    IF n = 0 THEN {<<>>}
    ELSE LET shorter == SeqsOf(S, n - 1)
         IN shorter \cup {Append(q, x) : q \in {r \in shorter : Len(r) = n - 1}, x \in S}

\* param_types as declared: one type, or a tuple of types
Declarations ==
    {[tup |-> FALSE, types |-> <<ty>>] : ty \in ElemTypes}
        \cup {[tup |-> TRUE, types |-> q] : q \in SeqsOf(ElemTypes, MaxArity) \ {<<>>}}

DecValues ==
    {PyNone, PyFn(1), PyList(<<PyInt(1)>>)} \cup ElemVals
        \cup {PyTuple(q) : q \in SeqsOf(ElemVals, MaxArity + 1)}

DecOutcome(name, m, p, d, kw, st) ==
    [f |-> name, kw |-> kw, args |-> <<>>, inst |-> 0, tgt |-> st.id,
     ret |-> IF Raised(st) THEN 0 ELSE st.id, err |-> st.err, made |-> st.log,
     again |-> FALSE, m |-> m, p |-> p, tup |-> d.tup, types |-> d.types]

Decorates(name, m, p, d, kw, st) ==
    /\ heap' = Commit(heap, st)
    /\ call' = DecOutcome(name, m, p, d, kw, st)
    /\ ncalls' = ncalls + 1
    /\ UNCHANGED <<lvars, dvars>>

\* a function decorated with set_widget_attribute(m, p, types) alone is called with p = v
ApplyAttribute ==
    /\ ncalls = 0
    /\ \E d \in Declarations : \E v \in DecValues :
       \E mp \in {<<"resize", "window_size">>, <<"setSizes", "sizes">>} :
          LET kw == mp[2] :> v
          IN Decorates("set_widget_attribute", mp[1], mp[2], d, kw,
                       set_widget_attribute(mp[1], mp[2], d.types, d.tup, kw,
                                            NewTarget("QWidget", Len(heap) + 1)))

\* a function decorated with connect_slot(sig, p) alone is called with p = v
ApplyConnect ==
    /\ ncalls = 0
    /\ \E v \in DecValues :
       \E mp \in {<<"clicked", "on_click">>, <<"toggled", "on_toggled">>} :
          LET kw == mp[2] :> v
          IN Decorates("connect_slot", mp[1], mp[2], [tup |-> FALSE, types |-> <<>>], kw,
                       connect_slot(mp[1], mp[2], kw, NewTarget("QPushButton", Len(heap) + 1)))

\* the sizes tried: absent (None), negative, two integers in either order, a non-int
SizeVals == {PyNone, PyInt(0 - 1), PyInt(1), PyInt(2), PyStr(1)}

\* a function decorated with set_widget_size alone is called with the four size keys
ApplySize ==
    /\ ncalls = 0
    /\ \E kw \in [SizeKeys -> SizeVals] :
          Decorates("set_widget_size", "", "", [tup |-> FALSE, types |-> <<>>], kw,
                    set_widget_size(kw, NewTarget("QWidget", Len(heap) + 1)))

DNext == ApplyAttribute \/ ApplyConnect \/ ApplySize

-----------------------------------------------------------------------------
(* The layout composers VBox, HBox, Columns and Rows.  A container is the   *)
(* sequence of additions made to it.                                       *)

\* the _LayoutCommand singletons
NextColumn == Obj("_LayoutCommand", 1)
NextRow == Obj("_LayoutCommand", 2)
AddStretch == Obj("_LayoutCommand", 3)
AddStretchLayout == Obj("_LayoutCommand", 4)

Composers == {"VBox", "HBox", "Columns", "Rows"}
Grids == {"Columns", "Rows"}

\* the sentinel at which a grid composer opens its next sub-container
OwnSentinel(comp) == IF comp = "Columns" THEN NextColumn ELSE NextRow

\* a composer at work: the additions made to the outer box, the additions made to
\* each sub-container (layout_item is the last of them, None while there is none)
NewBox == [outer |-> <<>>, subs |-> <<>>, err |-> NoErr]

Addition(op, x, stretch) == [op |-> op, x |-> x, s |-> stretch]
SubLayout(i) == Obj("sub", i)

\* where = 0: box.<op>(...); otherwise layout_item.<op>(...)
AddTo(b, where, a) ==
    IF where = 0 THEN [b EXCEPT !.outer = Append(@, a)]
    ELSE [b EXCEPT !.subs[where] = Append(@, a)]

\* the chain with AddStretchLayout placed as AddStretch is
DispatchStretchInner(comp, b, where, item, stretch) ==
    IF IsInstance(item, "QWidget") THEN AddTo(b, where, Addition("addWidget", item, stretch))
    ELSE IF IsInstance(item, "QLayout")
         THEN AddTo(b, where, Addition("addLayout", item, stretch))
    ELSE IF IsInstance(item, "QSpacerItem") THEN AddTo(b, where, Addition("addItem", item, 0))
    ELSE IF item = AddStretch THEN AddTo(b, where, Addition("addStretch", PyNone, 0))
    ELSE IF comp \in Grids /\ item = AddStretchLayout
         THEN AddTo(b, where, Addition("addStretch", PyNone, 0))
    ELSE [b EXCEPT !.err = [kind |-> "TypeError", p |-> item.t]]

\* the chain with an item of no known kind passed over
DispatchLenient(comp, b, where, item, stretch) ==
    IF IsInstance(item, "QWidget") THEN AddTo(b, where, Addition("addWidget", item, stretch))
    ELSE IF IsInstance(item, "QLayout")
         THEN AddTo(b, where, Addition("addLayout", item, stretch))
    ELSE IF IsInstance(item, "QSpacerItem") THEN AddTo(b, where, Addition("addItem", item, 0))
    ELSE IF item = AddStretch THEN AddTo(b, where, Addition("addStretch", PyNone, 0))
    ELSE IF comp \in Grids /\ item = AddStretchLayout
         THEN AddTo(b, 0, Addition("addStretch", PyNone, 0))
    ELSE b

\* the isinstance chain that places one item, its stretch already settled
Dispatch(comp, b, where, item, stretch) ==
    IF IsInstance(item, "QWidget") THEN AddTo(b, where, Addition("addWidget", item, stretch))
    ELSE IF IsInstance(item, "QLayout")
         THEN AddTo(b, where, Addition("addLayout", item, stretch))
    ELSE IF IsInstance(item, "QSpacerItem") THEN AddTo(b, where, Addition("addItem", item, 0))
    ELSE IF item = AddStretch THEN AddTo(b, where, Addition("addStretch", PyNone, 0))
    ELSE IF comp \in Grids /\ item = AddStretchLayout
         THEN AddTo(b, 0, Addition("addStretch", PyNone, 0))
    ELSE [b EXCEPT !.err = [kind |-> "TypeError", p |-> item.t]]

\* a turn that opens a sub-container only at the sentinel
ComposeItemAtSentinel(comp, b, raw, default_stretch) ==
    IF raw.t = "tuple" /\ (Len(raw.e) # 2 \/ ~IsInstance(raw.e[2], "int"))
    THEN [b EXCEPT !.err = [kind |-> "ValueError", p |-> "item"]]
    ELSE LET item == IF raw.t = "tuple" THEN raw.e[1] ELSE raw
             stretch == IF raw.t = "tuple" THEN raw.e[2].v ELSE default_stretch
         IN IF comp \notin Grids THEN Dispatch(comp, b, 0, item, stretch)
            ELSE LET opened ==
                       IF item = OwnSentinel(comp)
                       THEN [b EXCEPT !.subs = Append(@, <<>>),
                                      !.outer = Append(@, Addition("addLayout",
                                                    SubLayout(Len(b.subs) + 1), stretch))]
                       ELSE b
                 IN IF item = OwnSentinel(comp) THEN opened
                    ELSE Dispatch(comp, opened, Len(opened.subs), item, stretch)

\* a turn that opens every sub-container with default_stretch
ComposeItemDefaultWeight(comp, b, raw, default_stretch) ==
    IF raw.t = "tuple" /\ (Len(raw.e) # 2 \/ ~IsInstance(raw.e[2], "int"))
    THEN [b EXCEPT !.err = [kind |-> "ValueError", p |-> "item"]]
    ELSE LET item == IF raw.t = "tuple" THEN raw.e[1] ELSE raw
             stretch == IF raw.t = "tuple" THEN raw.e[2].v ELSE default_stretch
         IN IF comp \notin Grids THEN Dispatch(comp, b, 0, item, stretch)
            ELSE LET opened ==
                       IF item = OwnSentinel(comp) \/ b.subs = <<>>
                       THEN [b EXCEPT !.subs = Append(@, <<>>),
                                      !.outer = Append(@, Addition("addLayout",
                                                    SubLayout(Len(b.subs) + 1),
                                                    default_stretch))]
                       ELSE b
                 IN IF item = OwnSentinel(comp) THEN opened
                    ELSE Dispatch(comp, opened, Len(opened.subs), item, stretch)

\* a turn that opens no sub-container for AddStretchLayout
ComposeItemStretchFirst(comp, b, raw, default_stretch) ==
    IF raw.t = "tuple" /\ (Len(raw.e) # 2 \/ ~IsInstance(raw.e[2], "int"))
    THEN [b EXCEPT !.err = [kind |-> "ValueError", p |-> "item"]]
    ELSE LET item == IF raw.t = "tuple" THEN raw.e[1] ELSE raw
             stretch == IF raw.t = "tuple" THEN raw.e[2].v ELSE default_stretch
         IN IF comp \notin Grids THEN Dispatch(comp, b, 0, item, stretch)
            ELSE LET opened ==
                       IF item = OwnSentinel(comp)
                          \/ (b.subs = <<>> /\ item # AddStretchLayout)
                       THEN [b EXCEPT !.subs = Append(@, <<>>),
                                      !.outer = Append(@, Addition("addLayout",
                                                    SubLayout(Len(b.subs) + 1), stretch))]
                       ELSE b
                 IN IF item = OwnSentinel(comp) THEN opened
                    ELSE Dispatch(comp, opened, Len(opened.subs), item, stretch)

\* one turn of the loop over the items
ComposeItem(comp, b, raw, default_stretch) ==
    IF raw.t = "tuple" /\ (Len(raw.e) # 2 \/ ~IsInstance(raw.e[2], "int"))
    THEN [b EXCEPT !.err = [kind |-> "ValueError", p |-> "item"]]
    ELSE LET item == IF raw.t = "tuple" THEN raw.e[1] ELSE raw
             stretch == IF raw.t = "tuple" THEN raw.e[2].v ELSE default_stretch
         IN IF comp \notin Grids THEN Dispatch(comp, b, 0, item, stretch)
            ELSE LET opened ==
                       IF item = OwnSentinel(comp) \/ b.subs = <<>>
                       THEN [b EXCEPT !.subs = Append(@, <<>>),
                                      !.outer = Append(@, Addition("addLayout",
                                                    SubLayout(Len(b.subs) + 1), stretch))]
                       ELSE b
                 IN IF item = OwnSentinel(comp) THEN opened
                    ELSE Dispatch(comp, opened, Len(opened.subs), item, stretch)

\* the loop from the i-th item on; an exception ends it
RECURSIVE ComposeFrom(_, _, _, _, _)
ComposeFrom(comp, b, items, default_stretch, i) ==
    IF i > Len(items) \/ b.err # NoErr THEN b
    ELSE ComposeFrom(comp, ComposeItem(comp, b, items[i], default_stretch), items,
                     default_stretch, i + 1)

Compose(comp, items, default_stretch) == ComposeFrom(comp, NewBox, items, default_stretch, 1)

\* the items tried: the i-th item of a sequence, of a given kind
Leaf(i) == Obj("QWidget", 0 - i)
Weight == 2
ItemOf(comp, kind, i) ==
    CASE kind = "widget" -> Leaf(i)
      [] kind = "layout" -> Obj("QHBoxLayout", 0 - i)
      [] kind = "spacer" -> Obj("QSpacerItem", 0 - i)
      [] kind = "next" -> OwnSentinel(comp)
      [] kind = "NextRow" -> NextRow
      [] kind = "NextColumn" -> NextColumn
      [] kind = "AddStretch" -> AddStretch
      [] kind = "AddStretchLayout" -> AddStretchLayout
      [] kind = "str" -> PyStr(1)
      [] kind = "weighted" -> PyTuple(<<Leaf(i), PyInt(Weight)>>)
      [] kind = "weighted next" -> PyTuple(<<OwnSentinel(comp), PyInt(Weight)>>)
      [] kind = "triple" -> PyTuple(<<Leaf(i), PyInt(1), PyInt(Weight)>>)
      [] kind = "str weight" -> PyTuple(<<Leaf(i), PyStr(1)>>)

GridKinds == {"widget", "next", "AddStretch", "AddStretchLayout", "weighted", "weighted next"}
MixedKinds ==
    {"widget", "layout", "spacer", "NextRow", "NextColumn", "AddStretch",
     "AddStretchLayout", "str", "weighted", "triple", "str weight"}

ItemsOf(comp, kinds) == [i \in 1..Len(kinds) |-> ItemOf(comp, kinds[i], i)]

Composes(comp, items, default_stretch) ==
    LET b == Compose(comp, items, default_stretch)
    IN /\ call' = [f |-> comp, kw |-> <<>>, args |-> items, inst |-> 0, tgt |-> 0,
                   ret |-> IF b.err = NoErr THEN 1 ELSE 0, err |-> b.err, made |-> <<>>,
                   again |-> FALSE, default_stretch |-> default_stretch,
                   outer |-> b.outer, subs |-> b.subs]
       /\ ncalls' = ncalls + 1
       /\ UNCHANGED heap
       /\ UNCHANGED <<lvars, dvars>>

\* Rows(*items) or Columns(*items), of items each composer takes
ComposeGrid ==
    /\ ncalls = 0
    /\ \E comp \in Grids : \E kinds \in SeqsOf(GridKinds, MaxItems) :
          Composes(comp, ItemsOf(comp, kinds), 0)

\* any composer on items of any kind, with default_stretch given or not
ComposeMixed ==
    /\ ncalls = 0
    /\ \E comp \in Composers : \E kinds \in SeqsOf(MixedKinds, MaxMixed) :
       \E default_stretch \in {0, 1} :
          Composes(comp, ItemsOf(comp, kinds), default_stretch)

YNext == ComposeGrid \/ ComposeMixed

-----------------------------------------------------------------------------
(* The logging bridge: LoggerContext, the root logger's handlers, the       *)
(* message_logged signal and the LoggerWidgets connected to it.            *)

UiThread == "ui"
Threads == {UiThread, "w1", "w2"}      \* the UI thread and two background workers

Idle == [pc |-> "idle", id |-> 0, h |-> 0, wraps |-> 0]

\* ApplicationContext() builds the application's LoggerContext(output_logger_file_path,
\* enable_console): _setup_logging adds to the root logger a SignalHandler, a
\* console handler if enabled, a file handler if a path is given, in this order
NewContext ==
    /\ nctx = 0
    /\ \E enable_console \in BOOLEAN : \E file_path \in BOOLEAN :
          handlers' = Append(handlers, [console |-> enable_console, file |-> file_path])
    /\ nctx' = nctx + 1
    /\ UNCHANGED <<subs, thr, issued, serial, queue, rows, sinks, view, app>>
    /\ UNCHANGED <<fvars, dvars>>

\* a LoggerWidget as __init__ leaves it: auto_scroll on, an empty table scrolled
\* to no row
NewView == [auto_scroll |-> TRUE, scroll |-> 0 - 1]

\* LoggerWidget(logger_context): built on the UI thread, connects _add_log_entry
Subscribe ==
    /\ Len(subs) < MaxSubs
    /\ thr[UiThread].pc = "idle"
    /\ \E c \in 1..nctx : subs' = Append(subs, c)
    /\ rows' = Append(rows, <<>>)
    /\ view' = Append(view, NewView)
    /\ UNCHANGED <<handlers, nctx, thr, issued, serial, queue, sinks, app>>
    /\ UNCHANGED <<fvars, dvars>>

\* the LoggerWidgets connected to context c's message_logged, in connection order
Receivers(c) == SelectSeq([s \in 1..Len(subs) |-> s], LAMBDA s : subs[s] = c)

\* LoggerContext.log(level, source, message) on thread t, level one of the four
\* LogLevel members (the four branches differ only in the level name the record
\* carries, each of them a LogLevel name): the logger makes the record and starts
\* on the root logger's handlers
LogBegin(t) ==
    /\ thr[t].pc = "idle"
    /\ Len(issued) < MaxLogCalls
    /\ \E c \in 1..nctx :
          issued' = Append(issued, [ctx |-> c, by |-> t,
                                    subs |-> {s \in 1..Len(subs) : subs[s] = c}])
    /\ thr' = [thr EXCEPT ![t] = [pc |-> "logging", id |-> Len(issued) + 1, h |-> 1,
                                  wraps |-> 0]]
    /\ UNCHANGED <<handlers, nctx, subs, serial, queue, rows, sinks, view, app>>
    /\ UNCHANGED <<fvars, dvars>>

\* a connection that calls the slot on whichever thread emits
ConnectionTypeDirect(t) == "direct"

\* the connection made by connect() without a type: a direct call when the
\* emitting thread is the receiver's, an event on the receiver's queue otherwise
ConnectionType(t) == IF t = UiThread THEN "direct" ELSE "queued"

\* an event queue that keeps no more than the events it already holds
PostCoalesced(q, evs) == IF q = <<>> THEN evs ELSE q

\* posting events to the UI thread's queue
Post(q, evs) == q \o evs

\* _add_log_entry run by thread t: the row is inserted, and filled in unless the
\* level text is not a LogLevel name
Row(ev, t) == [id |-> ev.id, filled |-> ev.wraps = 0, thread |-> t]

\* the end of _add_log_entry whatever auto_scroll is
ScrolledAlways(v, rws, row) ==
    IF row.filled THEN [v EXCEPT !.scroll = Len(rws)] ELSE v

\* the end of _add_log_entry, reached when the row was filled in: with auto_scroll
\* the table scrolls to its last row, the one just inserted after those in rws
Scrolled(v, rws, row) ==
    IF row.filled /\ v.auto_scroll THEN [v EXCEPT !.scroll = Len(rws)] ELSE v

\* SignalHandler.emit of context c's handler, on thread t
Emit(t, c) ==
    LET me == thr[t]
        recv == Receivers(c)
        evs == [k \in 1..Len(recv) |->
                   [sub |-> recv[k], id |-> me.id, wraps |-> me.wraps]]
    IN /\ serial' = Append(serial, [ctx |-> c, id |-> me.id])
       /\ IF ConnectionType(t) = "direct"
          THEN /\ rows' = [s \in 1..Len(rows) |->
                              IF subs[s] = c
                              THEN Append(rows[s], Row([id |-> me.id, wraps |-> me.wraps], t))
                              ELSE rows[s]]
               /\ view' = [s \in 1..Len(view) |->
                              IF subs[s] = c
                              THEN Scrolled(view[s], rows[s],
                                            Row([id |-> me.id, wraps |-> me.wraps], t))
                              ELSE view[s]]
               /\ UNCHANGED queue
          ELSE /\ queue' = Post(queue, evs)
               /\ UNCHANGED <<rows, view>>

\* the lines the console and the file handler of a context write for a record
\* whose fields have been coloured `wraps` times: ColorFormatter.format colours
\* the record's own fields before it formats, the file handler formats what it finds
Written(c, id, wraps) ==
    (IF handlers[c].console
     THEN {[kind |-> "console", ctx |-> c, id |-> id, wraps |-> wraps + 1]} ELSE {})
    \cup (IF handlers[c].file
          THEN {[kind |-> "file", ctx |-> c, id |-> id,
                 wraps |-> IF handlers[c].console THEN wraps + 1 ELSE wraps]}
          ELSE {})

\* thread t's log call runs the handlers the next context registered: its
\* SignalHandler, then its console and file handlers, which touch only the record
\* and their own streams
Handle(t) ==
    /\ thr[t].pc = "logging"
    /\ LET me == thr[t]
       IN /\ Emit(t, me.h)
          /\ sinks' = sinks \cup Written(me.h, me.id, me.wraps)
          /\ thr' = [thr EXCEPT ![t] =
                        IF me.h = Len(handlers) THEN Idle
                        ELSE [me EXCEPT !.h = me.h + 1,
                                        !.wraps = IF handlers[me.h].console THEN @ + 1 ELSE @]]
    /\ UNCHANGED <<handlers, nctx, subs, issued, app>>
    /\ UNCHANGED <<fvars, dvars>>

\* the UI thread's event loop takes the next queued delivery and runs the slot
Deliver ==
    /\ thr[UiThread].pc = "idle"
    /\ queue # <<>>
    /\ LET ev == Head(queue)
       IN /\ rows' = [rows EXCEPT ![ev.sub] = Append(@, Row(ev, UiThread))]
          /\ view' = [view EXCEPT ![ev.sub] = Scrolled(@, rows[ev.sub], Row(ev, UiThread))]
    /\ queue' = Tail(queue)
    /\ UNCHANGED <<handlers, nctx, subs, thr, issued, serial, sinks, app>>
    /\ UNCHANGED <<fvars, dvars>>

\* Texts that ColorFormatter may have coloured: the characters first given and
\* the number of times colour codes were put around (or, for msg, before) them
PlainText(chars) == [s |-> chars, wraps |-> 0]
Coloured(text) == [text EXCEPT !.wraps = @ + 1]

RECURSIVE ColouredTimes(_, _)
ColouredTimes(text, n) == IF n = 0 THEN text ELSE Coloured(ColouredTimes(text, n - 1))

\* the members of LogLevel, by name, and LogLevel[text]
LogLevels == {"ERROR", "WARNING", "INFO", "DEBUG"}
InLogLevel(text) == text.wraps = 0 /\ text.s \in LogLevels

\* logging.getLogger(source).name: an empty name gets the root logger
LoggerName(source) == IF source = "" THEN "root" ELSE source

Sources == {"", "app"}

\* the record a log call makes, as the h-th context's handlers find it: coloured
\* once by the console handler of each earlier context that has one
RecordAt(level, source, h) ==
    LET n == Cardinality({g \in 1..(h - 1) : handlers[g].console})
    IN [levelname |-> ColouredTimes(PlainText(level), n),
        name |-> ColouredTimes(PlainText(LoggerName(source)), n),
        msg |-> ColouredTimes(PlainText("message"), n)]

\* what SignalHandler.emit of the h-th context passes to message_logged.emit
Notification(level, source, h) ==
    LET record == RecordAt(level, source, h)
    IN [ctx |-> h, level |-> record.levelname, source |-> record.name,
        message |-> record.msg]

\* LoggerContext(output_logger_file_path, enable_console), any number of them in
\* one process: each adds its handlers to the same root logger
AnotherContext ==
    /\ nctx < MaxCtx
    /\ \E enable_console \in BOOLEAN : \E file_path \in BOOLEAN :
          handlers' = Append(handlers, [console |-> enable_console, file |-> file_path])
    /\ nctx' = nctx + 1
    /\ UNCHANGED <<subs, thr, issued, serial, queue, rows, sinks, view, app>>
    /\ UNCHANGED <<fvars, dvars>>

\* LoggerContext.log(level, source, "message") from start to end on the UI thread:
\* the notifications the contexts' SignalHandlers emit, in handler order
LogThrough ==
    /\ nctx > 0
    /\ \E c \in 1..nctx : \E level \in LogLevels : \E source \in Sources :
          call' = [f |-> "log", kw |-> <<>>, args |-> <<>>, inst |-> 0, tgt |-> 0, ret |-> 0,
                   err |-> NoErr, made |-> <<>>, again |-> FALSE,
                   ctx |-> c, level |-> level, source |-> source,
                   notes |-> [h \in 1..nctx |-> Notification(level, source, h)]]
    /\ UNCHANGED <<heap, ncalls>>
    /\ UNCHANGED <<lvars, dvars>>

BNext == AnotherContext \/ LogThrough

\* what the menu offers, and "none" for a menu dismissed
MenuActions == {"Copy Line", "Clear All", "Auto-scroll", "none"}

\* auto_scroll_action.isChecked() once menu.exec has returned: setChecked put it
\* to auto_scroll, and choosing a checkable action toggles it
IsChecked(auto_scroll, action) ==
    IF action = "Auto-scroll" THEN ~auto_scroll ELSE auto_scroll

\* the text Copy Line puts on the clipboard for the row at the position clicked,
\* its cells joined; a row never filled in has no cells
RowText(r) == IF r.filled THEN <<r.id>> ELSE <<>>

\* a table cleared by making the widget anew
ClearedAnew(v) == NewView

\* the view once table.setRowCount(0) has run: no row is left to be scrolled to
Cleared(v) == [v EXCEPT !.scroll = 0 - 1]

\* LoggerWidget._show_context_menu on widget s, the user choosing `action` over
\* row `at` (-1 below the last row)
ShowContextMenu(s, action, at) ==
    /\ thr[UiThread].pc = "idle"
    /\ s \in 1..Len(subs)
    /\ at \in (0 - 1)..(Len(rows[s]) - 1)
    /\ IF action = "Copy Line"
       THEN /\ app' = IF at >= 0 THEN [app EXCEPT !.clipboard = RowText(rows[s][at + 1])]
                      ELSE app
            /\ UNCHANGED <<rows, view>>
       ELSE IF action = "Clear All"
       THEN /\ rows' = [rows EXCEPT ![s] = <<>>]
            /\ view' = [view EXCEPT ![s] = Cleared(@)]
            /\ UNCHANGED app
       ELSE IF action = "Auto-scroll"
       THEN /\ view' = [view EXCEPT ![s].auto_scroll = IsChecked(@, action)]
            /\ UNCHANGED <<rows, app>>
       ELSE UNCHANGED <<rows, view, app>>
    /\ UNCHANGED <<handlers, nctx, subs, thr, issued, serial, queue, sinks>>
    /\ UNCHANGED <<fvars, dvars>>

ContextMenu(s, action) == \E at \in (0 - 1)..(MaxLogCalls - 1) : ShowContextMenu(s, action, at)

\* create_logger_widget constructing a LoggerWidget at every call
CreateLoggerWidgetAnew ==
    /\ nctx = 1
    /\ thr[UiThread].pc = "idle"
    /\ Len(subs) <= MaxSubs
    /\ subs' = Append(subs, 1)
    /\ rows' = Append(rows, <<>>)
    /\ view' = Append(view, NewView)
    /\ app' = [app EXCEPT !.logger_widget = Len(subs) + 1, !.ret = Len(subs) + 1,
                          !.made = @ \cup {Len(subs) + 1}]
    /\ UNCHANGED <<handlers, nctx, thr, issued, serial, queue, sinks>>
    /\ UNCHANGED <<fvars, dvars>>

\* ApplicationContext.create_logger_widget(): the LoggerWidget is constructed on
\* the application's LoggerContext unless _logger_widget holds one
CreateLoggerWidget ==
    /\ nctx = 1
    /\ thr[UiThread].pc = "idle"
    /\ IF app.logger_widget = 0
       THEN /\ Len(subs) <= MaxSubs
            /\ subs' = Append(subs, 1)
            /\ rows' = Append(rows, <<>>)
            /\ view' = Append(view, NewView)
            /\ app' = [app EXCEPT !.logger_widget = Len(subs) + 1, !.ret = Len(subs) + 1,
                                  !.made = @ \cup {Len(subs) + 1}]
       ELSE /\ app' = [app EXCEPT !.ret = app.logger_widget]
            /\ UNCHANGED <<subs, rows, view>>
    /\ UNCHANGED <<handlers, nctx, thr, issued, serial, queue, sinks>>
    /\ UNCHANGED <<fvars, dvars>>

\* ApplicationContext.set_logger_widget(widget), widget a LoggerWidget
SetLoggerWidget(widget) ==
    /\ nctx = 1
    /\ thr[UiThread].pc = "idle"
    /\ widget \in 1..Len(subs)
    /\ app' = [app EXCEPT !.logger_widget = widget]
    /\ UNCHANGED <<handlers, nctx, subs, thr, issued, serial, queue, rows, sinks, view>>
    /\ UNCHANGED <<fvars, dvars>>

\* a logger widget at work: a background worker logs, the UI thread delivers the
\* records and shows the menu
Worker == "w1"
VNext ==
    \/ NewContext
    \/ Subscribe
    \/ \E s \in 1..MaxSubs : \E action \in MenuActions : ContextMenu(s, action)
    \/ LogBegin(Worker)
    \/ Handle(Worker)
    \/ Deliver

\* the application context on the UI thread: its logger widget, and those made
\* apart from it, while the application logs
ANext ==
    \/ NewContext
    \/ Subscribe
    \/ CreateLoggerWidget
    \/ \E widget \in 1..(MaxSubs + 1) : SetLoggerWidget(widget)
    \/ LogBegin(UiThread)
    \/ Handle(UiThread)

LNext ==
    \/ NewContext
    \/ Subscribe
    \/ \E t \in Threads : LogBegin(t)
    \/ \E t \in Threads : Handle(t)
    \/ Deliver

-----------------------------------------------------------------------------
(* The dialog wrappers: Color, OpenFile, OpenFiles, SaveFile, OpenDir *)

\* a path string held as the sequence of its components: "" is <<>>, "/" is <<0>>,
\* "/1/5" is <<0, 1, 5>>
PyPath(s) == [t |-> "str", v |-> Len(s), e |-> s]

\* os.path.dirname(p)
Dirname(p) == IF Len(p.e) <= 1 THEN p ELSE PyPath(SubSeq(p.e, 1, Len(p.e) - 1))

\* p.replace(os.sep, "/"): the components hold no separator, so joining them with "/"
\* is the path as it is held
Slashed(p) == PyPath(p.e)

\* a < b as Python compares two strings
RECURSIVE Before(_, _)
Before(a, b) ==
    IF a = <<>> THEN b # <<>>
    ELSE IF b = <<>> THEN FALSE
    ELSE IF Head(a) # Head(b) THEN Head(a) < Head(b)
    ELSE Before(Tail(a), Tail(b))

\* sorted(output)
RECURSIVE SortedPaths(_)
SortedPaths(s) ==
    IF s = <<>> THEN <<>>
    ELSE LET m == CHOOSE i \in 1..Len(s) : \A j \in 1..Len(s) : ~Before(s[j].e, s[i].e)
         IN <<s[m]>> \o SortedPaths(SubSeq(s, 1, m - 1) \o SubSeq(s, m + 1, Len(s)))

FileDialogs == {"OpenFile", "OpenFiles", "SaveFile", "OpenDir"}

\* the function whose last_path a wrapper reads when use_last_path is set
LastPathRead(fn) == IF fn = "OpenFile" THEN "OpenFiles" ELSE fn

\* what the toolkit's dialog returns: the empty string or list when cancelled
Choices(fn) ==
    CASE fn \in {"OpenFile", "SaveFile"} ->
            {PyStr(0), PyPath(<<0, 1, 5>>), PyPath(<<0, 2, 6>>)}
      [] fn = "OpenFiles" ->
            {PyList(<<>>), PyList(<<PyPath(<<0, 1, 5>>)>>),
             PyList(<<PyPath(<<0, 2, 6>>), PyPath(<<0, 2, 4>>)>>)}
      [] fn = "OpenDir" -> {PyStr(0), PyPath(<<0, 1>>), PyPath(<<0, 2>>)}

\* the directory arguments tried: none, a directory, a value that is no string
Directories == {PyNone, PyPath(<<0, 3>>), PyInt(5)}

\* the wrapper fn called with the dialog returning choice: the directory the dialog
\* is opened at, what the call returns, and last_path of fn before and after
FileDialog(fn, directory, use_last_path, choice) ==
    LET remembered == last_path[LastPathRead(fn)]
        dir == IF use_last_path /\ Truthy(remembered) THEN remembered
               ELSE IF directory = PyNone THEN PyStr(0)
               ELSE directory
        r == [f |-> fn, directory |-> directory, use_last_path |-> use_last_path,
              choice |-> choice, before |-> last_path[fn]]
    IN IF ~IsInstance(dir, "str")
       THEN r @@ [opened |-> PyNone, err |-> [kind |-> "ValueError", p |-> "directory"],
                  ret |-> PyNone, after |-> last_path[fn]]
       ELSE IF ~Truthy(choice)
       THEN r @@ [opened |-> dir, err |-> NoErr,
                  ret |-> IF fn = "OpenFiles" THEN PyList(<<>>) ELSE PyNone,
                  after |-> last_path[fn]]
       ELSE r @@ [opened |-> dir, err |-> NoErr,
                  ret |-> CASE fn = "OpenFiles" ->
                                 PyList(SortedPaths([i \in 1..Len(choice.e) |->
                                                        Slashed(choice.e[i])]))
                            [] OTHER -> Slashed(choice),
                  after |-> CASE fn = "OpenFiles" -> Slashed(Dirname(choice.e[1]))
                              [] fn = "OpenDir" -> Slashed(choice)
                              [] OTHER -> Slashed(Dirname(choice))]

\* QColor(*components); QColor() is the invalid colour the dialog returns when cancelled
QColor(components) == [t |-> "QColor", v |-> 1, e |-> components]
InvalidColor == [t |-> "QColor", v |-> 0, e |-> <<>>]

\* the colour arguments tried: the default, a QColor, a tuple with alpha, and tuples
\* the wrapper refuses
Colors ==
    {PyTuple(<<PyInt(77), PyInt(77), PyInt(77)>>), QColor(<<PyInt(1), PyInt(2), PyInt(3)>>),
     PyTuple(<<PyInt(1), PyInt(2), PyInt(3), PyInt(4)>>),
     PyTuple(<<PyInt(300), PyInt(0), PyInt(0)>>), PyTuple(<<PyInt(1), PyInt(2)>>)}

\* Color(color=color) with the dialog returning choice
ColorDialog(color, choice) ==
    LET r == [f |-> "Color", directory |-> color, use_last_path |-> FALSE,
              choice |-> choice, before |-> PyStr(0), after |-> PyStr(0)]
        refused == r @@ [opened |-> PyNone, err |-> [kind |-> "ValueError", p |-> "color"],
                         ret |-> PyNone]
        initial == IF color.t = "QColor" THEN color ELSE QColor(color.e)
    IN IF color.t = "tuple"
          /\ \E i \in 1..Len(color.e) :
                ~(IsInstance(color.e[i], "int") /\ 0 <= color.e[i].v /\ color.e[i].v <= 255)
       THEN refused
       ELSE IF color.t = "tuple" /\ Len(color.e) \notin {3, 4} THEN refused
       ELSE r @@ [opened |-> initial, err |-> NoErr,
                  ret |-> IF choice.v = 1 THEN choice ELSE initial]

\* one of the file dialog wrappers is called and the user answers its dialog
CallFileDialog ==
    /\ Len(dialogs) < MaxDialogs
    /\ \E fn \in FileDialogs : \E directory \in Directories :
       \E use_last_path \in BOOLEAN : \E choice \in Choices(fn) :
          LET r == FileDialog(fn, directory, use_last_path, choice)
          IN /\ dialogs' = Append(dialogs, r)
             /\ last_path' = [last_path EXCEPT ![fn] = r.after]
    /\ UNCHANGED <<fvars, lvars>>

\* Color is called and the user answers its dialog
CallColor ==
    /\ Len(dialogs) < MaxDialogs
    /\ \E color \in Colors :
       \E choice \in {InvalidColor, QColor(<<PyInt(9), PyInt(9), PyInt(9)>>)} :
          dialogs' = Append(dialogs, ColorDialog(color, choice))
    /\ UNCHANGED <<fvars, lvars, last_path>>

GNext == CallFileDialog \/ CallColor

\* no object constructed yet, no call made; the logging bridge is not in use
Init ==
    /\ heap = <<>>
    /\ call = NoCall
    /\ ncalls = 0
    /\ handlers = <<>>
    /\ nctx = 0
    /\ subs = <<>>
    /\ thr = [t \in Threads |-> Idle]
    /\ issued = <<>>
    /\ serial = <<>>
    /\ queue = <<>>
    /\ rows = <<>>
    /\ sinks = {}
    /\ view = <<>>
    /\ app = [logger_widget |-> 0, ret |-> 0, made |-> {}, clipboard |-> <<>>]
    /\ last_path = [fn \in FileDialogs |-> PyStr(0)]
    /\ dialogs = <<>>

Spec == Init /\ [][FNext]_vars

DecSpec == Init /\ [][DNext]_vars

LayoutSpec == Init /\ [][YNext]_vars

BridgeSpec == Init /\ [][BNext]_vars

ViewSpec == Init /\ [][VNext]_vars

AppSpec == Init /\ [][ANext]_vars

ArgSpec == Init /\ [][PNext]_vars

DialogSpec == Init /\ [][GNext]_vars

\* every thread keeps running and the UI thread keeps returning to its event loop
LogSpec ==
    /\ Init
    /\ [][LNext]_vars
    /\ WF_vars(Deliver)
    /\ \A t \in Threads : WF_vars(Handle(t))

-----------------------------------------------------------------------------
(* Vocabulary of the claims about the factory layer *)

\* the mutator an option stands for
SetterOf(k) ==
    CASE k = "text" -> "setText"
      [] k = "object_name" -> "setObjectName"
      [] k = "css" -> "setStyleSheet"
      [] k = "tooltip" -> "setToolTip"
      [] k = "tooltip_duration_ms" -> "setToolTipDuration"
      [] k = "shortcut" -> "setShortcut"
      [] k = "icon" -> "setIcon"
      [] k = "icon_size" -> "setIconSize"
      [] k = "min_width" -> "setMinimumWidth"
      [] k = "max_width" -> "setMaximumWidth"
      [] k = "min_height" -> "setMinimumHeight"
      [] k = "max_height" -> "setMaximumHeight"
      [] k = "pixmap" -> "setPixmap"
      [] k = "alignment" -> "setAlignment"
      [] k = "value_range" -> "setRange"
      [] k = "decimals" -> "setDecimals"
      [] k = "value" -> "setValue"
      [] k = "single_step" -> "setSingleStep"
      [] k = "page_step" -> "setPageStep"
      [] k = "orientation" -> "setOrientation"
      [] k = "checked" -> "setChecked"
      [] k = "layout" -> "setLayout"
      [] k = "window_size" -> "resize"
      [] k = "window_title" -> "setWindowTitle"
      [] k = "show" -> "show"
      [] k = "resizable" -> "setWidgetResizable"
      [] k = "margin" -> "setContentsMargins"
      [] k = "sizes" -> "setSizes"
      [] k = "central_widget" -> "setCentralWidget"
      [] k = "menubar" -> "setMenuBar"
      [] k = "statusbar" -> "setStatusBar"
      [] k \in {"current_page_index", "selected_item"} -> "setCurrentIndex"
      [] k = "current_page" -> "setCurrentWidget"
      [] k = "items" -> "addItem"
      [] k \in {"widgets", "pages"} -> "addWidget"
      [] k = "docks" -> "addDockWidget"
      [] k = "toolbars" -> "addToolBar"
      [] k = "on_click" -> "clicked"
      [] k = "on_value_changed" -> "valueChanged"
      [] k = "on_released" -> "released"
      [] k = "on_state_changed" -> "stateChanged"
      [] k = "on_toggled" -> "toggled"
      [] k = "on_index_changed" -> "currentIndexChanged"
      [] OTHER -> ""

\* the options whose value is handed to the setter as it is
DirectKeys ==
    {"text", "object_name", "css", "tooltip", "tooltip_duration_ms", "shortcut", "icon",
     "pixmap", "alignment", "value_range", "value", "single_step", "page_step",
     "orientation", "checked", "layout", "window_size", "window_title", "resizable",
     "sizes", "central_widget", "menubar", "statusbar", "current_page_index",
     "current_page", "decimals"} \cup SizeKeys \cup Callbacks

IsIntPair(v) == v.t = "tuple" /\ Len(v.e) = 2 /\ \A i \in 1..2 : v.e[i].t = "int"
IsNumPair(v) ==
    v.t = "tuple" /\ Len(v.e) = 2 /\ \A i \in 1..2 : v.e[i].t \in {"int", "float"}

\* v is a value of the kind option k is declared to take
ValidFor(k, v) ==
    /\ v # PyNone
    /\ CASE k \in Callbacks -> Callable(v)
         [] k \in SizeKeys -> v.t = "int" /\ v.v >= 0
         [] k \in {"text", "object_name", "css", "tooltip", "shortcut", "window_title",
                   "selected_item"} -> v.t = "str"
         [] k \in {"value", "single_step", "page_step", "tooltip_duration_ms", "margin",
                   "current_page_index"} -> v.t \in {"int", "float"}
         [] k = "value_range" -> IsNumPair(v) /\ v.e[1].v <= v.e[2].v
         [] k = "decimals" -> v.t = "int" /\ v.v >= 0
         [] k = "window_size" -> IsIntPair(v) /\ v.e[1].v > 0 /\ v.e[2].v > 0
         [] k \in {"checked", "show", "resizable"} -> v.t = "bool"
         [] k = "layout" -> v.t \in LayoutClasses
         [] k = "orientation" -> v.t = "Orientation"
         [] k = "pixmap" -> v.t = "QPixmap"
         [] k = "items" -> v.t = "list" /\ \A i \in 1..Len(v.e) : v.e[i].t = "str"
         [] k = "toolbars" ->
              v.t = "list" /\ \A i \in 1..Len(v.e) : v.e[i].t \in {"QToolBar", "type"}
         [] OTHER -> TRUE

\* every option of the call is one the factory declares, with a valid value, and the
\* paired minimum and maximum sizes are in order
ValidCall ==
    /\ call.f # ""
    /\ ~Unbindable(call.f, call.kw, call.args)
    /\ \A k \in DOMAIN call.kw : k = InstKey(call.f) \/ ValidFor(k, call.kw[k])
    /\ {"min_width", "max_width"} \subseteq DOMAIN call.kw
          => call.kw["min_width"].v <= call.kw["max_width"].v
    /\ {"min_height", "max_height"} \subseteq DOMAIN call.kw
          => call.kw["min_height"].v <= call.kw["max_height"].v

\* option k is left out of the call
Omitted(k) ==
    /\ k \notin DOMAIN call.kw
    /\ ~\E i \in 1..Len(call.args) : i <= Len(Positional(call.f)) /\ Positional(call.f)[i] = k

\* the mutator of option k was invoked in the call (a callback: connected)
Mutated(k) == \E i \in 1..Len(call.made) : call.made[i].m = SetterOf(k)

\* how often
TimesMutated(k) == Cardinality({i \in 1..Len(call.made) : call.made[i].m = SetterOf(k)})

\* the arguments the setter of option k gets for value v
ArgsFor(k, v) == IF v.t = "tuple" THEN v.e ELSE <<v>>

MutatedWith(k, v) ==
    \E i \in 1..Len(call.made) : call.made[i].m = SetterOf(k) /\ call.made[i].a = ArgsFor(k, v)

-----------------------------------------------------------------------------
(* C1: for every factory call and every recognized optional key the call   *)
(* omits, the key's mutator is not invoked on the target (Widget and       *)
(* MainWindow without `show` do not invoke show(); CheckBox(widget=w)      *)
(* without `checked` does not invoke setChecked).                          *)
C1_OmittedKeyNotApplied ==
    call.f # "" =>
        \A k \in Declared(call.f) \ {InstKey(call.f)} :
            (SetterOf(k) # "" /\ Omitted(k)) => ~Mutated(k)

(* C5: a factory that accepts an existing instance returns that very       *)
(* instance, decorated, when one is supplied, and constructs a new one     *)
(* only when none is supplied.                                             *)
C5_ReturnsGivenInstance ==
    call.ret # 0 =>
        IF call.inst # 0 THEN call.ret = call.inst
        ELSE call.ret = Len(heap) /\ heap[call.ret].log = call.made

\* what can be observed of an object, from the invocations made on it
Setters(log) == {log[i].m : i \in {j \in 1..Len(log) : log[j].k = "call"}}
Signals(log) == {log[i].m : i \in {j \in 1..Len(log) : log[j].k = "connect"}}
Adders == {"addItem", "addWidget"}
LastArgs(log, m) ==
    log[CHOOSE i \in 1..Len(log) :
            log[i].m = m /\ \A j \in (i + 1)..Len(log) : log[j].m # m].a
RECURSIVE Children(_, _)
Children(cls, log) ==
    IF log = <<>> THEN <<>>
    ELSE LET x == log[Len(log)]
             rest == Children(cls, SubSeq(log, 1, Len(log) - 1))
         IN IF x.m \notin Adders THEN rest
            ELSE IF cls = "QSplitter"
                 \* QSplitter.addWidget moves a widget it already holds to the end
                 THEN SelectSeq(rest, LAMBDA c : c # x.a) \o <<x.a>>
            ELSE Append(rest, x.a)
Observable(cls, log) ==
    [attrs |-> [m \in Setters(log) \ Adders |-> LastArgs(log, m)],
     slots |-> [sig \in Signals(log) |->
                    Cardinality({i \in 1..Len(log) : log[i].k = "connect" /\ log[i].m = sig})],
     items |-> Children(cls, log)]

(* C6: calling the same factory twice with the same existing instance and  *)
(* the same configuration leaves the instance in the same observable state *)
(* as calling it once: same attribute values, same number of callbacks per *)
(* signal, same child items.                                               *)
C6_ReconfigureIdempotent ==
    (call.again /\ call.ret # 0) =>
        LET o == heap[call.ret]
        IN Observable(o.cls, o.log)
             = Observable(o.cls, SubSeq(o.log, 1, Len(o.log) - Len(call.made)))

(* C7: an option of the factory's declared keyword set, supplied by        *)
(* keyword with a valid non-None value, has its setter invoked on the      *)
(* target with that value; none is dropped or routed to a non-setter.      *)
C7_DeclaredOptionApplied ==
    ValidCall =>
        /\ call.ret # 0
        /\ \A k \in DOMAIN call.kw \cap DirectKeys : MutatedWith(k, call.kw[k])

(* C8: within one factory call the mutator of an option that is present    *)
(* with a valid value is never invoked twice (Widget(layout=L) invokes     *)
(* setLayout(L) once).                                                     *)
C8_MutatorAtMostOnce ==
    (ValidCall /\ call.ret # 0) =>
        \A k \in DOMAIN call.kw \cap DirectKeys : TimesMutated(k) <= 1

\* the keys a factory's signature or its decorators know
Recognized(f) ==
    Declared(f) \cup UNION {KeysRead(Chain(f)[i]) : i \in 1..Len(Chain(f))}

(* C9: a call whose bag holds a key outside the factory's recognized set   *)
(* completes without error, the unrecognized key ignored.                  *)
C9_UnrecognizedKeyIgnored ==
    (/\ call.f # ""
     /\ \E k \in DOMAIN call.kw : k \notin Recognized(call.f)
     /\ \A k \in DOMAIN call.kw \cap Recognized(call.f) :
            k = InstKey(call.f) \/ ValidFor(k, call.kw[k])
     /\ Len(call.args) = 0)
        => call.err = NoErr

\* the value given to the decorator's key, whether it fails the declaration, and
\* the refusal: an error naming the parameter, nothing invoked or connected
Given == call.kw[call.p]
WrongShape ==
    IF call.tup
    THEN \/ Given.t # "tuple"
         \/ Len(Given.e) # Len(call.types)
         \/ \E i \in 1..Len(call.types) : ~IsInstance(Given.e[i], call.types[i])
    ELSE ~IsInstance(Given, call.types[1])
Refused ==
    /\ call.ret = 0
    /\ call.err = [kind |-> "TypeError", p |-> call.p]
    /\ call.made = <<>>
    /\ heap[call.tgt].log = <<>>

(* C10: a set_widget_attribute decorator whose key is present with a value *)
(* of the wrong scalar type, or with a non-tuple, wrong-arity or           *)
(* wrong-element-type value where a tuple is declared, raises an error     *)
(* naming the parameter and does not invoke the mutator; a connect_slot    *)
(* decorator whose key is present with a non-callable raises TypeError     *)
(* naming the parameter and registers nothing on the signal.  A key given  *)
(* as None counts as absent.                                               *)
C10_InvalidValueRefused ==
    /\ (call.f = "set_widget_attribute" /\ Given # PyNone /\ WrongShape) => Refused
    /\ (call.f = "connect_slot" /\ Given # PyNone /\ ~Callable(Given)) => Refused
C10_Witness ==
    /\ call.f = "set_widget_attribute"
    /\ call.tup
    /\ Given.t = "tuple"
    /\ Len(Given.e) # Len(call.types)
    /\ \A i \in 1..Len(call.types) : i <= Len(Given.e) => IsInstance(Given.e[i], call.types[i])
    /\ Refused

\* the size keys in the order set_widget_size takes them, those supplied, those
\* individually valid
SizeOrder == <<"min_width", "max_width", "min_height", "max_height">>
Supplied(k) == call.kw[k] # PyNone
ValidSize(k) == IsInstance(call.kw[k], "int") /\ call.kw[k].v >= 0
InvalidSizes == {i \in 1..Len(SizeOrder) : Supplied(SizeOrder[i]) /\ ~ValidSize(SizeOrder[i])}
Exceeds(lo, hi) == Supplied(lo) /\ Supplied(hi) /\ call.kw[lo].v > call.kw[hi].v

\* the setters of the supplied sizes among the first n keys, in order
RECURSIVE SizeSetters(_)
SizeSetters(n) ==
    IF n = 0 THEN <<>>
    ELSE IF Supplied(SizeOrder[n])
         THEN Append(SizeSetters(n - 1),
                     Invocation("call", SetterOf(SizeOrder[n]), <<call.kw[SizeOrder[n]]>>))
         ELSE SizeSetters(n - 1)

\* C24: in set_widget_size, when the sizes supplied are individually valid but
\* min_width > max_width (or min_height > max_height), ValueError is raised only
\* after the setter of every supplied size has been invoked; when a value is a
\* non-int or negative, ValueError is raised before that value's setter and
\* before the setters of all later sizes.
C24_OrderingCheckedLast ==
    call.f = "set_widget_size" =>
        IF InvalidSizes # {}
        THEN LET i == CHOOSE x \in InvalidSizes : \A y \in InvalidSizes : x <= y
             IN /\ call.err = [kind |-> "ValueError", p |-> SizeOrder[i]]
                /\ call.made = SizeSetters(i - 1)
                /\ \A a \in 1..Len(call.made) : \A j \in i..Len(SizeOrder) :
                      call.made[a].m # SetterOf(SizeOrder[j])
        ELSE IF Exceeds("min_width", "max_width") \/ Exceeds("min_height", "max_height")
        THEN /\ call.err.kind = "ValueError"
             /\ call.ret = 0
             /\ call.made = SizeSetters(Len(SizeOrder))
             /\ heap[call.tgt].log = call.made
        ELSE call.err = NoErr /\ call.made = SizeSetters(Len(SizeOrder))
C24_Witness ==
    /\ call.f = "set_widget_size"
    /\ call.kw = [k \in SizeKeys |->
                    CASE k = "min_width" -> PyInt(2) [] k = "max_width" -> PyInt(1)
                      [] k = "min_height" -> PyInt(1) [] k = "max_height" -> PyInt(2)]
    /\ call.err = [kind |-> "ValueError", p |-> "min_width"]
    /\ Len(call.made) = 4
    /\ Len(heap[call.tgt].log) = 4

\* the change signals a value setter emits when it changes the value, and the
\* value a newly constructed widget has for it
ChangeSignals(m) ==
    CASE m = "setChecked" -> {"toggled", "stateChanged"}
      [] m = "setValue" -> {"valueChanged"}
      [] m = "setText" -> {"textChanged"}
      [] m = "setCurrentIndex" -> {"currentIndexChanged"}
      [] OTHER -> {}
FreshValue(m) ==
    CASE m = "setChecked" -> PyBool(FALSE)
      [] m = "setValue" -> PyInt(0)
      [] m = "setText" -> PyStr(0)
      [] m = "setCurrentIndex" -> PyInt(0 - 1)
      [] OTHER -> PyNone

\* the connections of this call through which a setter of this call has certainly
\* called the slot: the widget is new, the setter is invoked after the connection,
\* changes the widget's fresh value, and nothing before it set the value or put
\* the fresh value or the new one out of range
Fired ==
    {a \in 1..Len(call.made) :
        /\ call.made[a].k = "connect"
        /\ \E b \in (a + 1)..Len(call.made) :
              /\ call.made[b].k = "call"
              /\ call.made[a].m \in ChangeSignals(call.made[b].m)
              /\ Len(call.made[b].a) = 1
              /\ call.made[b].a[1] # FreshValue(call.made[b].m)
              /\ \A c \in 1..(b - 1) :
                    /\ call.made[c].m # call.made[b].m
                    /\ call.made[c].m = "setRange"
                          => /\ call.made[c].a[1].v <= 0
                             /\ call.made[c].a[1].v <= call.made[b].a[1].v
                             /\ call.made[b].a[1].v <= call.made[c].a[2].v}

CallbackFactories == {"CheckBox", "ComboBox", "RadioButton", "Slider", "SpinBox", "Button"}

\* C26: a callback passed to a factory is never invoked during that factory
\* call: the value-setting options of the same call do not fire it, for CheckBox,
\* ComboBox, RadioButton and Slider alike.
C26_CallbackNotInvoked ==
    (call.f \in CallbackFactories /\ call.inst = 0) => Fired = {}

\* the texts of the items the combo box acted on holds, in index order, and the
\* index this call made current
ItemsHeld ==
    LET adds == SelectSeq(heap[call.tgt].log, LAMBDA v : v.m = "addItem")
    IN [i \in 1..Len(adds) |-> adds[i].a[1]]
CurrentIndex ==
    LET sets == SelectSeq(call.made, LAMBDA v : v.m = "setCurrentIndex")
    IN sets[Len(sets)].a[1].v
ItemsGiven == IF Truthy(Get(call.kw, "items")) THEN call.kw["items"].e ELSE <<>>

\* C29: after ComboBox(items=L, selected_item=s) the current index designates an
\* item whose text is s whenever s occurs in L, and is 0 otherwise, also when an
\* existing widget that already holds items is given through widget=.
C29_SelectedItemCurrent ==
    (call.f = "ComboBox" /\ call.ret # 0 /\ "selected_item" \in DOMAIN call.kw) =>
        IF \E i \in 1..Len(ItemsGiven) : ItemsGiven[i] = call.kw["selected_item"]
        THEN /\ CurrentIndex + 1 \in 1..Len(ItemsHeld)
             /\ ItemsHeld[CurrentIndex + 1] = call.kw["selected_item"]
        ELSE CurrentIndex = 0

\* the factories with a value_range, and a pair of bounds of the kind each takes
\* the keyword bag that names each positional argument of the call on record
RECURSIVE Keyworded(_, _, _)
Keyworded(f, kw, args) ==
    IF args = <<>> THEN kw
    ELSE Keyworded(f, (Positional(f)[Len(args)] :> args[Len(args)]) @@ kw,
                   SubSeq(args, 1, Len(args) - 1))

\* C30: a call that passes its leading options positionally makes the invocations,
\* and ends with the outcome, of the call that passes the same options by keyword
C30_PositionalLikeKeyword ==
    (call.f \in PositionalFactories /\ call.args # <<>>
        /\ ~Unbindable(call.f, call.kw, call.args)) =>
        LET other == Run(call.f, Keyworded(call.f, call.kw, call.args), <<>>, call.tgt)
        IN /\ other.log = call.made
           /\ other.err = call.err

\* the same, of Button alone
C30_ButtonPositionalLikeKeyword == call.f = "Button" => C30_PositionalLikeKeyword

\* the same, of ToolButton given its text alone
C30_ToolButtonTextLikeKeyword ==
    (call.f = "ToolButton" /\ Len(call.args) = 1) => C30_PositionalLikeKeyword

RangeFactories == {"SpinBox", "DoubleSpinBox", "Slider"}
IsRange(f, v) == IF f = "DoubleSpinBox" THEN IsNumPair(v) ELSE IsIntPair(v)
RangeGiven == call.kw["value_range"]

(* C11: SpinBox, DoubleSpinBox and Slider called with value_range=(min,max) *)
(* invoke setRange(min,max), with exactly those bounds, if min<=max; if    *)
(* min>max the call raises ValueError and nothing has been invoked or      *)
(* connected on the target.                                                *)
C11_RangeOrdered ==
    (/\ call.f \in RangeFactories
     /\ ~Unbindable(call.f, call.kw, call.args)
     /\ "value_range" \in DOMAIN call.kw
     /\ IsRange(call.f, RangeGiven))
        => IF RangeGiven.e[1].v <= RangeGiven.e[2].v
           THEN /\ \E i \in 1..Len(call.made) :
                      call.made[i] = Invocation("call", "setRange", RangeGiven.e)
                /\ \A i \in 1..Len(call.made) :
                      call.made[i].m = "setRange" => call.made[i].a = RangeGiven.e
           ELSE /\ call.ret = 0
                /\ call.err.kind = "ValueError"
                /\ call.made = <<>>
C11_Witness ==
    /\ call.f = "Slider"
    /\ "value_range" \in DOMAIN call.kw
    /\ IsRange(call.f, RangeGiven)
    /\ RangeGiven.e[1].v > RangeGiven.e[2].v
    /\ "on_value_changed" \in DOMAIN call.kw
    /\ Callable(call.kw["on_value_changed"])
    /\ call.inst # 0
    /\ call.err.kind = "ValueError"
    /\ call.made = <<>>

\* the last call as far as its n-th decorator, and the same call made without the
\* keys K
StageOf(n) == Staged(call.f, call.kw, call.args, call.tgt, n)
Without(K) == [k \in DOMAIN call.kw \ K |-> call.kw[k]]
StageWithout(K, n) == Staged(call.f, Without(K), call.args, call.tgt, n)

\* the n-th decorator of the last call is the one that raised
RejectedAt(n) ==
    /\ call.f \in Factories
    /\ ~Unbindable(call.f, call.kw, call.args)
    /\ n \in 1..Len(Chain(call.f))
    /\ ~Raised(StageOf(n - 1))
    /\ Raised(StageOf(n))

\* the place in Button's order of the decorator that invokes method m
ButtonRank(m) ==
    CASE m = "clicked" -> 1
      [] m \in {"setToolTip", "setToolTipDuration"} -> 2
      [] m \in {"setMinimumWidth", "setMaximumWidth", "setMinimumHeight",
                "setMaximumHeight"} -> 3
      [] m = "setShortcut" -> 4
      [] m \in {"setIcon", "setIconSize"} -> 5
      [] m = "setText" -> 6
      [] m = "setStyleSheet" -> 7
      [] m = "setObjectName" -> 8

(* C12: the decorators of a factory act on one instance in a fixed order,  *)
(* innermost first (Button: on_click, tooltip, size, shortcut, icon, text, *)
(* css, object_name); when a decorator rejects its parameter the call      *)
(* raises there: the decorators before it have acted as they do in the     *)
(* call without the rejected keys, and no decorator after it has acted.    *)
C12_OrderedAndAborting ==
    /\ call.f = "Button" =>
          \A a, b \in 1..Len(call.made) :
              a < b => ButtonRank(call.made[a].m) <= ButtonRank(call.made[b].m)
    /\ \A n \in 1..(IF call.f \in Factories THEN Len(Chain(call.f)) ELSE 0) :
          RejectedAt(n) =>
              /\ call.ret = 0
              /\ call.err = StageOf(n).err
              /\ call.made = StageOf(n).log
              /\ StageOf(n - 1).log
                    = StageWithout(KeysRead(Chain(call.f)[n]), n - 1).log
              /\ SubSeq(call.made, 1, Len(StageOf(n - 1).log)) = StageOf(n - 1).log
              /\ heap[call.tgt].log
                    = SubSeq(heap[call.tgt].log, 1, Len(heap[call.tgt].log) - Len(call.made))
                        \o call.made
C12_Witness ==
    /\ call.f = "Button"
    /\ call.args # <<>>
    /\ "on_click" \in DOMAIN call.kw /\ Callable(call.kw["on_click"])
    /\ "min_width" \in DOMAIN call.kw /\ call.kw["min_width"] = PyInt(-1)
    /\ RejectedAt(3)
    /\ call.made = <<Invocation("connect", "clicked", <<call.kw["on_click"]>>)>>
    /\ call.err = [kind |-> "ValueError", p |-> "min_width"]

-----------------------------------------------------------------------------
(* Vocabulary of the claims about the layout composers *)

Composed == call.f \in Composers
Gridded == call.f \in Grids /\ call.ret = 1

\* the i-th element given, and what it is once a pair is taken apart
Element(i) == call.args[i]
IsPair(raw) == raw.t = "tuple" /\ Len(raw.e) = 2 /\ IsInstance(raw.e[2], "int")
Unpaired(raw) == IF IsPair(raw) THEN raw.e[1] ELSE raw

IsLeaf(x) ==
    IsInstance(x, "QWidget") \/ IsInstance(x, "QLayout") \/ IsInstance(x, "QSpacerItem")
IsPlacement(a) == a.op \in {"addWidget", "addLayout", "addItem"}

\* the positions at which the composer's own sentinel stands
SentinelAt == {i \in 1..Len(call.args) : Unpaired(Element(i)) = OwnSentinel(call.f)}

\* 1 when the sequence starts with a run that no sentinel precedes
LeadingRun ==
    IF Len(call.args) > 0 /\ 1 \notin SentinelAt THEN 1 ELSE 0

\* the sub-container the i-th element belongs to
SegmentOf(i) == LeadingRun + Cardinality({j \in SentinelAt : j <= i})

RECURSIVE Concat(_, _)
Concat(seqs, n) == IF n = 0 THEN <<>> ELSE Concat(seqs, n - 1) \o seqs[n]

\* what the sub-containers hold, read in order, each in its own order
PlacedInOrder ==
    LET placed == SelectSeq(Concat(call.subs, Len(call.subs)), IsPlacement)
    IN [i \in 1..Len(placed) |-> placed[i].x]

\* the leaves given, in input order
LeavesGiven ==
    LET leaves == SelectSeq([i \in 1..Len(call.args) |-> Unpaired(Element(i))], IsLeaf)
    IN leaves

SubsAdded == SelectSeq(call.outer, LAMBDA a : a.op = "addLayout" /\ a.x.t = "sub")

\* C13: Rows (Columns) partitions its items at NextRow (NextColumn): the outer
\* container gets one sub-container per sentinel plus one for a leading run that
\* no sentinel precedes, none for an empty sequence, and the sub-containers read
\* in order hold exactly the widgets, layouts and spacers given, in input order;
\* Rows(A, NextRow, B, NextRow, C) gives three sub-containers of one leaf each
\* and Rows(A, B) gives one sub-container holding A then B.
C13_PartitionedAtSentinel ==
    Gridded =>
        /\ Len(call.subs) = Cardinality(SentinelAt) + LeadingRun
        /\ call.args = <<>> => call.subs = <<>> /\ call.outer = <<>>
        /\ Len(SubsAdded) = Len(call.subs)
        /\ \A k \in 1..Len(SubsAdded) : SubsAdded[k].x = SubLayout(k)
        /\ PlacedInOrder = LeavesGiven
        /\ \A k \in 1..Len(call.subs) :
              Len(SelectSeq(call.subs[k], IsPlacement))
                 = Cardinality({i \in 1..Len(call.args) :
                                  IsLeaf(Unpaired(Element(i))) /\ SegmentOf(i) = k})
        /\ call.args = <<Leaf(1), OwnSentinel(call.f), Leaf(3), OwnSentinel(call.f), Leaf(5)>>
              => call.subs = << <<Addition("addWidget", Leaf(1), 0)>>,
                                <<Addition("addWidget", Leaf(3), 0)>>,
                                <<Addition("addWidget", Leaf(5), 0)>> >>
        /\ call.args = <<Leaf(1), Leaf(2)>>
              => call.subs = << <<Addition("addWidget", Leaf(1), call.default_stretch),
                                  Addition("addWidget", Leaf(2), call.default_stretch)>> >>
C13_Witness ==
    /\ call.f = "Rows"
    /\ call.ret = 1
    /\ call.args = <<Leaf(1), NextRow, Leaf(3), NextRow, Leaf(5)>>
    /\ Len(call.subs) = 3
    /\ \A k \in 1..3 : Len(call.subs[k]) = 1
    /\ PlacedInOrder = <<Leaf(1), Leaf(3), Leaf(5)>>

IsStretch(a) == a.op = "addStretch"
Stretches(container) == Len(SelectSeq(container, IsStretch))

\* the same call with its i-th element replaced
Replaced(i, x) ==
    Compose(call.f, [call.args EXCEPT ![i] = x], call.default_stretch)

\* C14: in Rows and Columns AddStretchLayout adds its stretch to the outer
\* container and not to a sub-container, AddStretch adds its stretch to the
\* current sub-container and not to the outer container, and the one in place of
\* the other never gives the same layout.
C14_StretchLayoutOutside ==
    Gridded =>
        /\ Stretches(call.outer)
              = Cardinality({i \in 1..Len(call.args) : Element(i) = AddStretchLayout})
        /\ \A k \in 1..Len(call.subs) :
              Stretches(call.subs[k])
                 = Cardinality({i \in 1..Len(call.args) :
                                  Element(i) = AddStretch /\ SegmentOf(i) = k})
        /\ \A i \in 1..Len(call.args) :
              /\ Element(i) = AddStretch
                    => LET other == Replaced(i, AddStretchLayout)
                       IN other.err = NoErr
                          /\ <<other.outer, other.subs>> # <<call.outer, call.subs>>
              /\ Element(i) = AddStretchLayout
                    => LET other == Replaced(i, AddStretch)
                       IN other.err = NoErr
                          /\ <<other.outer, other.subs>> # <<call.outer, call.subs>>
C14_Witness ==
    /\ call.f = "Rows"
    /\ call.ret = 1
    /\ call.args = <<Leaf(1), AddStretch, NextRow, Leaf(4), AddStretchLayout>>
    /\ call.subs = << <<Addition("addWidget", Leaf(1), 0), Addition("addStretch", PyNone, 0)>>,
                      <<Addition("addWidget", Leaf(4), 0)>> >>
    /\ call.outer = <<Addition("addLayout", SubLayout(1), 0),
                      Addition("addLayout", SubLayout(2), 0),
                      Addition("addStretch", PyNone, 0)>>

\* the sentinels a composer has a branch for
Recognizes(comp) ==
    IF comp \in Grids THEN {OwnSentinel(comp), AddStretch, AddStretchLayout}
    ELSE {AddStretch}

\* an element the composer takes: a leaf, a sentinel it recognizes, or a pair of
\* one of these with an integer
Supported(comp, raw) == IsLeaf(Unpaired(raw)) \/ Unpaired(raw) \in Recognizes(comp)

Unsupported == {i \in 1..Len(call.args) : ~Supported(call.f, Element(i))}
FirstUnsupported == CHOOSE i \in Unsupported : \A j \in Unsupported : i <= j

\* C15: VBox, HBox, Rows and Columns raise TypeError naming the element's type
\* for any element that is not a widget, a layout, a spacer or a sentinel the
\* composer recognizes, among them NextRow in Columns, NextColumn in Rows and
\* NextRow, NextColumn or AddStretchLayout in VBox and HBox.
C15_UnsupportedElementTypeError ==
    (Composed /\ Unsupported # {}) =>
        /\ call.ret = 0
        /\ call.err.kind = "TypeError"
        /\ call.err.p = Unpaired(Element(FirstUnsupported)).t

\* a tuple that is not (item, stretch:int)
Malformed(raw) == raw.t = "tuple" /\ ~IsPair(raw)

\* C15, amended: the composers raise TypeError naming the type of the first
\* element that, a pair (item, int) taken apart, is not a widget, a layout, a
\* spacer or a sentinel the composer recognizes, among them NextRow in Columns,
\* NextColumn in Rows and NextRow, NextColumn or AddStretchLayout in VBox and
\* HBox; when that element is a tuple other than (item, int) they raise
\* ValueError instead; and they raise nothing when every element is supported.
C15_UnsupportedItemRefused ==
    Composed =>
        IF Unsupported = {} THEN call.ret = 1 /\ call.err = NoErr
        ELSE /\ call.ret = 0
             /\ IF Malformed(Element(FirstUnsupported))
                THEN call.err.kind = "ValueError"
                ELSE /\ call.err.kind = "TypeError"
                     /\ call.err.p = Unpaired(Element(FirstUnsupported)).t
C15_Witness ==
    /\ call.f = "Columns"
    /\ call.args = <<Leaf(1), NextRow>>
    /\ call.ret = 0
    /\ call.err = [kind |-> "TypeError", p |-> "_LayoutCommand"]

\* a sentinel paired with a weight
IsSentinel(x) == x.t = "_LayoutCommand"
PairedSentinelAt == {i \in 1..Len(call.args) : IsPair(Element(i)) /\ IsSentinel(Element(i).e[1])}

\* C25: in Rows and Columns a sentinel never carries a stretch weight: a tuple
\* that pairs a sentinel with a weight is not accepted, and no sub-container is
\* opened with a weight taken from such a tuple.
C25_SentinelNeverWeighted ==
    (call.f \in Grids /\ PairedSentinelAt # {}) =>
        /\ call.ret = 0
        /\ \A a \in 1..Len(call.outer) :
              (call.outer[a].op = "addLayout" /\ call.outer[a].x.t = "sub")
                 => call.outer[a].s = call.default_stretch

\* the element at which the k-th sub-container is opened
OpenerOf(k) ==
    CHOOSE i \in 1..Len(call.args) :
        SegmentOf(i) = k /\ \A j \in 1..(i - 1) : SegmentOf(j) < k

C28_OpenedBeforeFirstElement ==
    (Gridded /\ Len(call.args) > 0 /\ Unpaired(Element(1)) # OwnSentinel(call.f)) =>
        /\ call.outer[1].op = "addLayout" /\ call.outer[1].x = SubLayout(1)
        /\ Unpaired(Element(1)) = AddStretchLayout
              => Len(call.outer) >= 2 /\ call.outer[2] = Addition("addStretch", PyNone, 0)
        /\ \A i \in 1..Len(call.args) :
              (IsLeaf(Unpaired(Element(i))) /\ SegmentOf(i) = 1)
                 => \E a \in 1..Len(call.subs[1]) : call.subs[1][a].x = Unpaired(Element(i))
        /\ call.args = <<AddStretchLayout, Leaf(2)>>
              => /\ call.outer = <<Addition("addLayout", SubLayout(1), call.default_stretch),
                                  Addition("addStretch", PyNone, 0)>>
                 /\ call.subs = << <<Addition("addWidget", Leaf(2), call.default_stretch)>> >>
C28_Witness ==
    /\ call.f = "Rows"
    /\ call.ret = 1
    /\ call.args = <<AddStretchLayout, Leaf(2)>>
    /\ call.outer = <<Addition("addLayout", SubLayout(1), call.default_stretch),
                      Addition("addStretch", PyNone, 0)>>
    /\ call.subs = << <<Addition("addWidget", Leaf(2), call.default_stretch)>> >>

-----------------------------------------------------------------------------
(* Vocabulary of the claims about the logging bridge *)

\* rows widget s holds for log call i
TimesDelivered(i, s) ==
    IF s > Len(rows) THEN 0
    ELSE Cardinality({k \in 1..Len(rows[s]) : rows[s][k].id = i})

\* log call i was made with widget s connected to its context's message_logged
Owed(i, s) == i <= Len(issued) /\ s \in issued[i].subs

\* the place of log call i among the emissions of context c's SignalHandler
SerialPos(c, i) == CHOOSE k \in 1..Len(serial) : serial[k] = [ctx |-> c, id |-> i]

(* C2: every log call made, from any thread, after a subscriber connected  *)
(* to message_logged is eventually delivered to that subscriber, and never *)
(* more than once: the table gains exactly one row for it.                 *)
C2_DeliveredExactlyOnce ==
    \A i \in 1..MaxLogCalls : \A s \in 1..MaxSubs :
        /\ Owed(i, s) ~> (TimesDelivered(i, s) = 1)
        /\ [](TimesDelivered(i, s) <= 1)
C2_Witness ==
    \E i, j \in 1..Len(issued) : \E s \in 1..Len(subs) :
        /\ issued[i].by = UiThread /\ issued[j].by # UiThread
        /\ Owed(i, s) /\ Owed(j, s)
        /\ TimesDelivered(i, s) = 1 /\ TimesDelivered(j, s) = 1

(* C3: a subscriber receives notifications, and the table shows rows, in   *)
(* the order in which the log calls were serialized at the bridge,         *)
(* whatever mix of UI-thread and worker-thread callers made them.          *)
C3_DeliveredInSerialOrder ==
    \A s \in 1..Len(rows) : \A a, b \in 1..Len(rows[s]) :
        a < b => SerialPos(subs[s], rows[s][a].id) < SerialPos(subs[s], rows[s][b].id)

(* C4: _add_log_entry, and so every change of the table, runs on the UI    *)
(* thread only; a worker's log call puts the notification on the UI        *)
(* thread's event queue instead of running the handler itself.             *)
C4_HandlerOnUiThread ==
    /\ \A s \in 1..Len(rows) : \A k \in 1..Len(rows[s]) : rows[s][k].thread = UiThread
    /\ \A t \in Threads \ {UiThread} :
          (thr[t].pc = "logging" /\ thr[t].h > 1 /\ issued[thr[t].id].subs # {})
             => \E k \in 1..Len(queue) : queue[k].id = thr[t].id
                \/ \E s \in issued[thr[t].id].subs : TimesDelivered(thr[t].id, s) > 0
C4_Witness ==
    \E s \in 1..Len(rows) : \E k \in 1..Len(rows[s]) :
        /\ issued[rows[s][k].id].by # UiThread
        /\ rows[s][k].thread = UiThread
        /\ thr[issued[rows[s][k].id].by].pc = "idle"

\* log call id has run all the root logger's handlers
Finished(id) == \A t \in Threads : ~(thr[t].pc = "logging" /\ thr[t].id = id)

\* the lines context c's file handler wrote for log call id
FileLines(c, id) == {l \in sinks : l.kind = "file" /\ l.ctx = c /\ l.id = id}

\* C17: for every log call on a bridge configured with a file path the file
\* receives exactly one line, and its source, LEVEL and message fields are the
\* call's own, plain, whether or not the console sink is enabled.
C17_FileLinePlain ==
    \A id \in 1..Len(issued) :
        LET c == issued[id].ctx
        IN (handlers[c].file /\ Finished(id)) =>
              /\ Cardinality(FileLines(c, id)) = 1
              /\ \A l \in FileLines(c, id) : l.wraps = 0

\* C16: every notification delivered to a subscriber carries a level name that
\* is a LogLevel name and the call's level, the source label passed to the call
\* and the call's message, for every source label and however many contexts were
\* constructed with the console sink enabled, so that _add_log_entry finds the
\* level.
C16_NotificationPlain ==
    call.f = "log" =>
        \A h \in 1..Len(call.notes) :
            /\ call.notes[h].level = PlainText(call.level)
            /\ call.notes[h].source = PlainText(call.source)
            /\ call.notes[h].message = PlainText("message")
            /\ InLogLevel(call.notes[h].level)

-----------------------------------------------------------------------------
(* Vocabulary of the claims about the Logger Table View *)

\* a step in which widget s gets one more row: a record is delivered to it
Delivered(s) ==
    /\ s \in 1..Len(rows) /\ s \in 1..Len(rows')
    /\ Len(rows'[s]) = Len(rows[s]) + 1

\* a step in which widget s is constructed
Constructed(s) == s = Len(rows) + 1 /\ Len(rows') = s

\* C18: with auto_scroll true a delivered record scrolls the view to the newest
\* row, so from the empty table of a new widget the position after N records is
\* row N-1; with auto_scroll off a delivered record still appends its row and
\* leaves the scroll position unchanged.
C18_ScrollsWhenAutoScroll ==
    [][\A s \in 1..(MaxSubs + 1) :
          /\ Constructed(s) => view'[s] = [auto_scroll |-> TRUE, scroll |-> 0 - 1]
          /\ Delivered(s) =>
                /\ SubSeq(rows'[s], 1, Len(rows[s])) = rows[s]
                /\ view'[s].auto_scroll = view[s].auto_scroll
                /\ rows'[s][Len(rows'[s])].filled
                /\ IF view[s].auto_scroll
                   THEN view'[s].scroll = Len(rows'[s]) - 1
                   ELSE view'[s].scroll = view[s].scroll]_vars
C18_Witness ==
    \E s \in 1..Len(rows) :
        /\ ~view[s].auto_scroll
        /\ Len(rows[s]) = 2
        /\ view[s].scroll = 0

\* C19: Clear All reduces the row count to 0 and leaves the auto_scroll flag as it
\* is; Copy Line and a dismissed menu change neither the rows nor the flag; the
\* Auto-scroll action toggles the flag and nothing else changes it.
C19_MenuActions ==
    [][\A s \in 1..Len(view) :
          /\ ContextMenu(s, "Clear All")
                => rows'[s] = <<>> /\ view'[s].auto_scroll = view[s].auto_scroll
          /\ (ContextMenu(s, "Copy Line") \/ ContextMenu(s, "none"))
                => rows' = rows /\ view' = view
          /\ ContextMenu(s, "Auto-scroll")
                => view'[s].auto_scroll = ~view[s].auto_scroll /\ rows' = rows
          /\ (s \in 1..Len(view') /\ view'[s].auto_scroll # view[s].auto_scroll)
                => ContextMenu(s, "Auto-scroll")]_vars
C19_Witness ==
    \E s \in 1..Len(rows) :
        /\ rows[s] = <<>>
        /\ ~view[s].auto_scroll
        /\ queue = <<>>
        /\ \E id \in 1..Len(issued) : s \in issued[id].subs /\ Finished(id)

-----------------------------------------------------------------------------
(* Vocabulary of the claims about the dialog wrappers *)

\* the dialog of call r was shown and the user made a selection in it
Selected(r) == r.err = NoErr /\ (IF r.f = "Color" THEN r.choice.v = 1 ELSE Truthy(r.choice))

\* the dialog of call r was shown and the user cancelled it
Cancelled(r) == r.err = NoErr /\ ~Selected(r)

\* the directory the selection of call r is located in
SelectedDir(r) ==
    CASE r.f = "OpenDir" -> r.choice
      [] r.f = "OpenFiles" -> Dirname(r.choice.e[1])
      [] OTHER -> Dirname(r.choice)

\* the calls of the function of call j made before it
Earlier(j) == {i \in 1..(j - 1) : dialogs[i].f = dialogs[j].f}

Latest(S) == CHOOSE i \in S : \A k \in S : k <= i

\* what C21 asks of the j-th dialog call
RemembersLastPath(j) ==
    LET r == dialogs[j]
    IN /\ (r.use_last_path /\ Earlier(j) # {} /\ Selected(dialogs[Latest(Earlier(j))])) =>
             /\ r.err = NoErr
             /\ r.opened = SelectedDir(dialogs[Latest(Earlier(j))])
       /\ ((\A i \in Earlier(j) : ~Selected(dialogs[i])) /\ r.err = NoErr) =>
             r.opened = (IF r.directory = PyNone THEN PyStr(0) ELSE r.directory)

\* C21: a file dialog wrapper called with use_last_path=True right after a call of
\* the same wrapper that returned a selection opens its dialog at the directory of
\* that selection, whatever directory it is given; a wrapper that has made no
\* selection yet opens at the directory argument, or at '' when there is none
C21_RemembersLastPath ==
    \A j \in 1..Len(dialogs) : dialogs[j].f \in FileDialogs => RemembersLastPath(j)

\* the same of OpenFiles, SaveFile and OpenDir only
C21_OthersRememberLastPath ==
    \A j \in 1..Len(dialogs) :
        dialogs[j].f \in FileDialogs \ {"OpenFile"} => RemembersLastPath(j)

\* what C22 asks of a call
CancelledQuietly(r) ==
    Cancelled(r) =>
        /\ r.ret = (IF r.f = "OpenFiles" THEN PyList(<<>>) ELSE PyNone)
        /\ r.after = r.before

\* C22: a cancelled dialog makes its wrapper return None (an empty list for
\* OpenFiles) without an error, and leaves the wrapper's last_path as it was
C22_CancelReturnsNothing == \A j \in 1..Len(dialogs) : CancelledQuietly(dialogs[j])

\* the same of the file dialog wrappers only
C22_FileCancelReturnsNothing ==
    \A j \in 1..Len(dialogs) : dialogs[j].f \in FileDialogs => CancelledQuietly(dialogs[j])

-----------------------------------------------------------------------------
(* Vocabulary of the claim about the handler registry *)

\* the console handlers and the file handlers registered on the root logger
ConsoleHandlers == {h \in 1..Len(handlers) : handlers[h].console}
FileHandlers == {h \in 1..Len(handlers) : handlers[h].file}

\* C23: once the first LoggerContext is constructed no step adds a handler to the
\* root logger or removes one from it
C23_RegistryReadOnly == [][nctx >= 1 => handlers' = handlers]_vars

\* C23, its consequence: a log call is written by at most one console handler and
\* at most one file handler
C23_OneLinePerLogCall ==
    call.f = "log" => (Cardinality(ConsoleHandlers) <= 1 /\ Cardinality(FileHandlers) <= 1)

=============================================================================
